---------------------------- MODULE Spec2Model ----------------------------
(***************************************************************************)
(* Heat-balance engines of building-physics-sim:                           *)
(*   - run_hourly      of src/physics.py      (heating + cooling loads)    *)
(*   - run_hourly      of src/src/physics.py  (thermal-circuit heating)    *)
(*   - run_rc_hourly   of src/src/rc_model.py (3-resistance RC network)    *)
(* Floating-point values are modelled as exact rationals <<n, d>> in       *)
(* lowest terms with d > 0; numpy vectors are sequences of rationals,      *)
(* one element per weather row.  None is the empty tuple.                  *)
(***************************************************************************)
EXTENDS Integers, Sequences, FiniteSets, TLC

VARIABLES pc, inp, acc, out, prev

vars == <<pc, inp, acc, out, prev>>

(***************************************************************************)
(* Rational arithmetic (the float operators + - * / < max of the code).     *)
(***************************************************************************)
\* Every operator binds its operands once (x \in {a}) before it uses them.
The(S) == CHOOSE v \in S : TRUE

RECURSIVE GCD(_, _)
GCD(a, b) == IF b = 0 THEN a ELSE The({GCD(y, x % y) : x \in {a}, y \in {b}})

Abs(x) == IF x < 0 THEN -x ELSE x

Q(n, d) ==
    The({The({<<(s * x) \div g, (s * y) \div g>> :
                 s \in {IF y < 0 THEN -1 ELSE 1}, g \in {GCD(Abs(x), Abs(y))}}) :
            x \in {n}, y \in {d}})

RI(n) == <<n, 1>>

Zero == RI(0)

One == RI(1)

RNeg(a) == The({<<-x[1], x[2]>> : x \in {a}})

RAdd(a, b) ==
    The({The({Q(x[1] * (y[2] \div g) + y[1] * (x[2] \div g), x[2] * (y[2] \div g)) :
                 g \in {GCD(x[2], y[2])}}) :
            x \in {a}, y \in {b}})

RSub(a, b) == RAdd(a, RNeg(b))

RMul(a, b) ==
    The({The({Q((x[1] \div g1) * (y[1] \div g2), (x[2] \div g2) * (y[2] \div g1)) :
                 g1 \in {GCD(Abs(x[1]), y[2])}, g2 \in {GCD(Abs(y[1]), x[2])}}) :
            x \in {a}, y \in {b}})

RDiv(a, b) == The({RMul(a, Q(y[2], y[1])) : y \in {b}})

RLt(a, b) == RSub(a, b)[1] < 0

RLeq(a, b) == RSub(a, b)[1] <= 0

RMax(a, b) == The({IF RLt(x, y) THEN y ELSE x : x \in {a}, y \in {b}})

RAbs(a) == The({<<Abs(x[1]), x[2]>> : x \in {a}})

None == <<>>

(***************************************************************************)
(* np.cos(np.deg2rad(x)) and np.sin(np.deg2rad(x)) on the angles the model *)
(* uses (multiples of 30 degrees); irrational values to three decimals.    *)
(***************************************************************************)
CosTable ==
    [k \in 0..11 |->
        CASE k = 0 -> Q(1, 1)        [] k = 1 -> Q(433, 500)
          [] k = 2 -> Q(1, 2)        [] k = 3 -> Q(0, 1)
          [] k = 4 -> Q(-1, 2)       [] k = 5 -> Q(-433, 500)
          [] k = 6 -> Q(-1, 1)       [] k = 7 -> Q(-433, 500)
          [] k = 8 -> Q(-1, 2)       [] k = 9 -> Q(0, 1)
          [] k = 10 -> Q(1, 2)       [] k = 11 -> Q(433, 500)]

\* only whole multiples of 30 degrees are tabulated
CosDeg(x) == CosTable[CHOOSE k \in 0..11 : x = RI(30 * k) \/ Q(x[1] % 360, x[2]) = RI(30 * k)]

SinDeg(x) == CosDeg(RSub(x, RI(90)))

(***************************************************************************)
(* config.py                                                                *)
(***************************************************************************)
RHO_AIR == Q(12, 10)

CP_AIR == RI(1005)

H_E == RI(25)

(***************************************************************************)
(* Vector helpers (numpy broadcasting over the n weather rows).            *)
(***************************************************************************)
Zeros(n) == [k \in 1..n |-> Zero]

VAdd(u, v) == [k \in 1..Len(u) |-> RAdd(u[k], v[k])]

RECURSIVE SumSeq(_)
SumSeq(s) == IF s = <<>> THEN Zero ELSE RAdd(Head(s), SumSeq(Tail(s)))

(***************************************************************************)
(* src/physics.py : solar geometry and sol-air temperature                 *)
(***************************************************************************)
cos_incidence(theta_s_deg, phi_s_deg, tilt_deg, azimuth_deg) ==
    RAdd(RMul(RMul(SinDeg(theta_s_deg), SinDeg(tilt_deg)),
              CosDeg(RSub(phi_s_deg, azimuth_deg))),
         RMul(CosDeg(theta_s_deg), CosDeg(tilt_deg)))

\* the irradiance on the plane without either maximum
plane_irradiance_unclamped(I_dir, I_dif, cos_i, tilt) ==
    RAdd(RMul(I_dir, cos_i), RMul(I_dif, RDiv(RAdd(One, CosDeg(tilt)), RI(2))))

plane_irradiance(I_dir, I_dif, cos_i, tilt) ==
    LET cos_tilt == CosDeg(tilt)
        F_sky == RDiv(RAdd(One, cos_tilt), RI(2))
    IN  RAdd(RMax(Zero, RMul(I_dir, RMax(Zero, cos_i))), RMul(I_dif, F_sky))

sol_air_temp(T_out, I_p, alpha, epsilon, I_LW, h_e) ==
    RAdd(T_out, RDiv(RMul(alpha, I_p), h_e))

(***************************************************************************)
(* src/src/building.py : Plane, AirSide, InternalGains                     *)
(***************************************************************************)
Plane(name, type, area_m2, tilt_deg, azimuth_deg, U, alpha, epsilon, g, F_sh, ground_contact) ==
    [name |-> name, type |-> type, area_m2 |-> area_m2, tilt_deg |-> tilt_deg,
     azimuth_deg |-> azimuth_deg, U |-> U, alpha |-> alpha, epsilon |-> epsilon,
     g |-> g, F_sh |-> F_sh, ground_contact |-> ground_contact]

is_opaque(p) == p.type = "opaque"

is_window(p) == p.type = "window"

AirSide(V_zone_m3, Vdot_vent_m3s, eta_HRV, ACH_infiltration_h) ==
    [V_zone_m3 |-> V_zone_m3, Vdot_vent_m3s |-> Vdot_vent_m3s,
     eta_HRV |-> eta_HRV, ACH_infiltration_h |-> ACH_infiltration_h]

\* InternalGains is the tuple <<Q_equip_kW, Q_occ_kW, Q_light_kW>>
total_kw(gains) == RAdd(RAdd(gains[1], gains[2]), gains[3])

(***************************************************************************)
(* Call bookkeeping shared by the three engines.  pc is the position in    *)
(* the running call, inp its arguments, acc its local arrays, out what it  *)
(* returned or raised, prev the arguments and outcome of the call before.  *)
(***************************************************************************)
NoCall == [status |-> "none"]

Returned(rows) == [status |-> "ok", rows |-> rows]

Raised(kind, what, detail) ==
    [status |-> "raised", error |-> kind, what |-> what, detail |-> detail]

Col(o, c) == [k \in 1..Len(o.rows) |-> o.rows[k][c]]

(***************************************************************************)
(* Weather table: the set of its column names and its rows in order.       *)
(***************************************************************************)
AllCols == {"timestamp", "T_out_C", "I_dir_Wm2", "I_dif_Wm2", "theta_s_deg",
            "phi_s_deg", "I_LW_Wm2", "T_ground_C"}

Sample(T_out, I_dir, I_dif, theta_s, phi_s, T_ground) ==
    [T_out_C |-> RI(T_out), I_dir_Wm2 |-> RI(I_dir), I_dif_Wm2 |-> RI(I_dif),
     theta_s_deg |-> RI(theta_s), phi_s_deg |-> RI(phi_s),
     I_LW_Wm2 |-> RI(300), T_ground_C |-> RI(T_ground)]

\* rows sampled every `cadence` minutes from minute 0
WeatherTable(cols, cadence, samples) ==
    [cols |-> cols,
     rows |-> [k \in 1..Len(samples) |->
                 [c \in AllCols |->
                     IF c = "timestamp" THEN RI(cadence * (k - 1)) ELSE samples[k][c]]]]

\* the weather series of the model: up to n consecutive rows of a repeating day
Windows(day, n) ==
    {[k \in 1..len |-> day[((start + k - 2) % Len(day)) + 1]] :
        start \in 1..Len(day), len \in 1..n}

\* the plane lists of the model: up to n planes of a roster, in roster order
Sublists(roster, n) ==
    {[j \in 1..Cardinality(I) |->
        roster[CHOOSE x \in I : Cardinality({y \in I : y < x}) = j - 1]] :
        I \in {J \in SUBSET (1..Len(roster)) : Cardinality(J) <= n}}

(***************************************************************************)
(* src/physics.py : run_hourly                                             *)
(***************************************************************************)
req_cols == <<"timestamp", "T_out_C", "I_dir_Wm2", "I_dif_Wm2", "theta_s_deg", "phi_s_deg">>

\* lines 32-35: the first required column the table lacks, or None
FirstMissing(cols) ==
    IF \A k \in 1..Len(req_cols) : req_cols[k] \in cols THEN None
    ELSE <<req_cols[CHOOSE k \in 1..Len(req_cols) :
                /\ req_cols[k] \notin cols
                /\ \A j \in 1..(k - 1) : req_cols[j] \in cols]>>

\* lines 48-49: irradiance on plane p, one value per row
PlaneIrr(w, p) ==
    [k \in 1..Len(w.rows) |->
        plane_irradiance(w.rows[k].I_dir_Wm2, w.rows[k].I_dif_Wm2,
            cos_incidence(w.rows[k].theta_s_deg, w.rows[k].phi_s_deg,
                          p.tilt_deg, p.azimuth_deg),
            p.tilt_deg)]

\* lines 68, 74, 77, 78: U * A * (T_boundary - T_set)
Trans(p, T_boundary, T_set) == RMul(RMul(p.U, p.area_m2), RSub(T_boundary, T_set))

\* lines 70-72: a ground-contact plane's cooling term
GroundCoolTerm_unclipped(p, T_boundary_c, T_cool) == Trans(p, T_boundary_c, T_cool)

GroundCoolTerm(p, T_boundary_c, T_cool) == RMax(Zero, Trans(p, T_boundary_c, T_cool))

\* lines 61-62: heating boundary temperature of an exposed opaque plane
HeatBoundary_solair(T_out, I_p, p) == sol_air_temp(T_out, I_p, p.alpha, p.epsilon, None, H_E)

HeatBoundary(T_out, I_p, p) == T_out

\* the sol-air temperature taken as it comes
CoolBoundary_solair(T_out, I_p, p) == sol_air_temp(T_out, I_p, p.alpha, p.epsilon, None, H_E)

\* the outdoor air taken for the cooling boundary
CoolBoundary_ambient(T_out, I_p, p) == T_out

\* lines 64-66: cooling boundary temperature of an exposed opaque plane
CoolBoundary(T_out, I_p, p) ==
    RMax(sol_air_temp(T_out, I_p, p.alpha, p.epsilon, None, H_E), T_out)

\* lines 51-82: what one iteration of the plane loop raises, or None
PlaneError(w, p) ==
    IF is_opaque(p)
    THEN IF p.ground_contact
         THEN IF "T_ground_C" \notin w.cols THEN <<p.name, "T_ground_C">> ELSE None
         ELSE IF p.alpha = None \/ p.epsilon = None
              THEN <<p.name, "alpha/epsilon">> ELSE None
    ELSE IF is_window(p) /\ p.g = None THEN <<p.name, "g">> ELSE None

\* lines 51-82: the three accumulators after one iteration for plane p
PlaneAccumulate(a, w, p, T_heat, T_cool) ==
    LET n == Len(w.rows)
        I_p == PlaneIrr(w, p)
        T_out(k) == w.rows[k].T_out_C
        T_gnd(k) == w.rows[k].T_ground_C
    IN  IF is_opaque(p)
        THEN [a EXCEPT
                !.Q_trans_h = [k \in 1..n |->
                    RAdd(a.Q_trans_h[k],
                         Trans(p, IF p.ground_contact THEN T_gnd(k)
                                  ELSE HeatBoundary(T_out(k), I_p[k], p), T_heat))],
                !.Q_trans_c = [k \in 1..n |->
                    RAdd(a.Q_trans_c[k],
                         IF p.ground_contact
                         THEN GroundCoolTerm(p, T_gnd(k), T_cool)
                         ELSE Trans(p, CoolBoundary(T_out(k), I_p[k], p), T_cool))]]
        ELSE IF is_window(p)
        THEN [a EXCEPT
                !.Q_trans_h = [k \in 1..n |-> RAdd(a.Q_trans_h[k], Trans(p, T_out(k), T_heat))],
                !.Q_trans_c = [k \in 1..n |-> RAdd(a.Q_trans_c[k], Trans(p, T_out(k), T_cool))],
                !.Q_solar = [k \in 1..n |->
                    RAdd(a.Q_solar[k],
                         RMul(RMul(RMul(p.g, p.area_m2), I_p[k]),
                              IF p.F_sh = None THEN One ELSE p.F_sh))]]
        ELSE a

\* lines 85-87: RHO_AIR * CP_AIR * (Vdot_vent * (1 - eta_HRV) + V_inf) * (T_out - T_set)
AirLoad(air, T_out, T_set) ==
    LET V_inf == RDiv(RMul(air.ACH_infiltration_h, air.V_zone_m3), RI(3600))
    IN  RMul(RMul(RMul(RHO_AIR, CP_AIR),
                  RAdd(RMul(air.Vdot_vent_m3s, RSub(One, air.eta_HRV)), V_inf)),
             RSub(T_out, T_set))

\* lines 90-92
InternalGain_kW(gains) == IF gains # None THEN total_kw(gains) ELSE Zero

InternalGain(gains) == IF gains # None THEN RMul(total_kw(gains), RI(1000)) ELSE Zero

\* lines 94-97
KitchenGain(kitchen_kw, kitchen_on, k) ==
    IF RLt(Zero, kitchen_kw) /\ kitchen_on # None /\ kitchen_on[k]
    THEN RMul(kitchen_kw, RI(1000)) ELSE Zero

\* line 105
HeatingLoad_unclamped(Q_trans_h, Q_air_h) == RSub(RNeg(Q_trans_h), Q_air_h)

\* the size of the heating balance, whichever way it points
HeatingLoad_magnitude(Q_trans_h, Q_air_h) ==
    RMax(RSub(RNeg(Q_trans_h), Q_air_h), RAdd(Q_trans_h, Q_air_h))

HeatingLoad(Q_trans_h, Q_air_h) == RMax(Zero, RSub(RNeg(Q_trans_h), Q_air_h))

\* line 109
CoolingLoad(Q_trans_c, Q_air_c, Q_solar, Q_int, Q_kitchen) ==
    RMax(Zero, RAdd(RAdd(RAdd(RAdd(Q_trans_c, Q_air_c), Q_solar), Q_int), Q_kitchen))

\* lines 84-131: the result table
ResultTable(i, a) ==
    [k \in 1..Len(i.weather.rows) |->
        LET T_out == i.weather.rows[k].T_out_C
            Q_air_h == AirLoad(i.air, T_out, i.T_heat)
            Q_air_c == AirLoad(i.air, T_out, i.T_cool)
            Q_int == InternalGain(i.gains)
            Q_kitchen == KitchenGain(i.kitchen_kw, i.kitchen_on, k)
        IN  [timestamp |-> i.weather.rows[k].timestamp,
             T_out_C |-> T_out,
             Q_trans_h_W |-> a.Q_trans_h[k],
             Q_air_h_W |-> Q_air_h,
             Q_heat_W |-> HeatingLoad(a.Q_trans_h[k], Q_air_h),
             Q_trans_c_W |-> a.Q_trans_c[k],
             Q_air_c_W |-> Q_air_c,
             Q_solar_W |-> a.Q_solar[k],
             Q_int_W |-> Q_int,
             Q_kitchen_W |-> Q_kitchen,
             Q_cool_W |-> CoolingLoad(a.Q_trans_c[k], Q_air_c, a.Q_solar[k], Q_int, Q_kitchen),
             theta_s_deg |-> i.weather.rows[k].theta_s_deg]]

\* lines 30-44: entry, column check and zeroed accumulators
run_hourly_enter(i) ==
    /\ inp' = i
    /\ IF FirstMissing(i.weather.cols) # None
       THEN /\ pc' = "raised"
            /\ out' = Raised("ValueError", "Missing", FirstMissing(i.weather.cols))
            /\ acc' = None
       ELSE /\ pc' = "planes"
            /\ out' = NoCall
            /\ acc' = [p |-> 1,
                       Q_trans_h |-> Zeros(Len(i.weather.rows)),
                       Q_trans_c |-> Zeros(Len(i.weather.rows)),
                       Q_solar |-> Zeros(Len(i.weather.rows))]

\* one iteration that takes the maximum of line 66 in place, in the T_out_C
\* column of the table that was passed
run_hourly_plane_inplace ==
    /\ pc = "planes"
    /\ acc.p <= Len(inp.planes)
    /\ LET p == inp.planes[acc.p]
           a == PlaneAccumulate(acc, inp.weather, p, inp.T_heat, inp.T_cool)
           I_p == PlaneIrr(inp.weather, p)
           w == [k \in 1..Len(inp.weather.rows) |->
                   [inp.weather.rows[k] EXCEPT
                       !.T_out_C = CoolBoundary(inp.weather.rows[k].T_out_C, I_p[k], p)]]
       IN  IF PlaneError(inp.weather, p) # None
           THEN /\ pc' = "raised"
                /\ out' = Raised("ValueError", "needs", PlaneError(inp.weather, p))
                /\ acc' = acc
                /\ inp' = inp
           ELSE /\ pc' = "planes"
                /\ out' = out
                /\ acc' = [a EXCEPT !.p = acc.p + 1]
                /\ inp' = IF is_opaque(p) /\ ~p.ground_contact
                          THEN [inp EXCEPT !.weather.rows = w] ELSE inp
    /\ UNCHANGED prev

\* lines 47-82: one iteration of `for p in planes`
run_hourly_plane ==
    /\ pc = "planes"
    /\ acc.p <= Len(inp.planes)
    /\ LET p == inp.planes[acc.p]
           a == PlaneAccumulate(acc, inp.weather, p, inp.T_heat, inp.T_cool)
       IN  IF PlaneError(inp.weather, p) # None
           THEN /\ pc' = "raised"
                /\ out' = Raised("ValueError", "needs", PlaneError(inp.weather, p))
                /\ acc' = acc
           ELSE /\ pc' = "planes"
                /\ out' = out
                /\ acc' = [a EXCEPT !.p = acc.p + 1]
    /\ UNCHANGED <<inp, prev>>

\* lines 84-131: air loads, gains, demands and the returned DataFrame
run_hourly_return ==
    /\ pc = "planes"
    /\ acc.p > Len(inp.planes)
    /\ pc' = "returned"
    /\ out' = Returned(ResultTable(inp, acc))
    /\ UNCHANGED <<inp, acc, prev>>

(***************************************************************************)
(* Arguments the caller passes to run_hourly of src/physics.py.            *)
(***************************************************************************)
MaxRows == 2

MaxPlanes == 2

\* cold night / low sun in the east, mild / hot sunny noon over warm ground / mild dusk /
\* sunny at room temperature over cold ground / hot night over cold ground
SteadyDay ==
    <<Sample(0, 0, 0, 120, 0, 10), Sample(10, 500, 100, 90, 90, 10),
      Sample(30, 500, 100, 60, 180, 30), Sample(20, 0, 0, 120, 0, 30),
      Sample(20, 500, 100, 60, 180, 10), Sample(30, 0, 0, 120, 0, 10)>>

SteadyCols == {AllCols, AllCols \ {"T_ground_C", "I_LW_Wm2"}, AllCols \ {"I_dif_Wm2", "phi_s_deg"}}

SteadyRoster ==
    <<Plane("Wall-S", "opaque", RI(10), RI(90), RI(180), Q(1, 2), Q(3, 5), Q(9, 10), None, One, FALSE),
      Plane("Roof", "opaque", RI(20), RI(0), RI(0), Q(3, 10), Q(3, 5), Q(9, 10), None, One, FALSE),
      Plane("Floor", "opaque", RI(20), RI(0), RI(0), Q(1, 2), None, None, None, One, TRUE),
      Plane("Win-E", "window", RI(5), RI(90), RI(90), RI(2), None, None, Q(4, 5), Q(1, 2), FALSE),
      Plane("Wall-X", "opaque", RI(10), RI(90), RI(0), Q(1, 2), None, Q(9, 10), None, One, FALSE),
      Plane("Win-X", "window", RI(5), RI(90), RI(0), RI(2), None, None, None, None, FALSE)>>

SteadyAir == {AirSide(RI(120), Zero, Zero, Zero), AirSide(RI(120), Q(1, 10), Q(4, 5), Q(1, 2))}

SteadySetpoints == {<<RI(20), RI(24)>>, <<RI(20), RI(20)>>}

\* <<gains, kitchen_kw, kitchen_on given>>
SteadyExtras == {<<None, Zero, FALSE>>, <<<<Q(1, 5), Q(1, 10), Zero>>, RI(2), TRUE>>}

KitchenOn(n) == [k \in 1..n |-> k % 2 = 1]

RunHourlyArgs(cols, smp, pl, air, sp, ex) ==
    [fn |-> "physics.run_hourly",
     weather |-> WeatherTable(cols, 60, smp), planes |-> pl, air |-> air,
     T_heat |-> sp[1], T_cool |-> sp[2], gains |-> ex[1],
     kitchen_kw |-> ex[2], kitchen_on |-> IF ex[3] THEN KitchenOn(Len(smp)) ELSE None]

SteadyInputs ==
    {RunHourlyArgs(cols, smp, pl, air, sp, ex) :
        cols \in SteadyCols, smp \in Windows(SteadyDay, MaxRows),
        pl \in Sublists(SteadyRoster, MaxPlanes), air \in SteadyAir,
        sp \in SteadySetpoints, ex \in SteadyExtras}

(***************************************************************************)
(* src/src/physics.py : thermal-circuit steady state                       *)
(***************************************************************************)
cos_inc(zenith, azimuth_sun, tilt, azimuth_surf) ==
    RAdd(RMul(RMul(SinDeg(zenith), SinDeg(tilt)), CosDeg(RSub(azimuth_sun, azimuth_surf))),
         RMul(CosDeg(zenith), CosDeg(tilt)))

irradiance_on_plane(I_dir, I_dif, cos_i, tilt) ==
    LET F_sky == RDiv(RAdd(One, CosDeg(tilt)), RI(2))
        I_beam == RMul(I_dir, RMax(Zero, cos_i))
    IN  RAdd(RMax(Zero, I_beam), RMul(I_dif, F_sky))

sol_air(T_out, I_sol, alpha, h_e) == RAdd(T_out, RDiv(RMul(alpha, I_sol), h_e))

\* np.inf, the resistance of a branch that carries no air
Inf == <<1, 0>>

\* x / R for a resistance that may be np.inf
OverR(x, R) == IF R = Inf THEN Zero ELSE RDiv(x, R)

\* the Plane the thermal-circuit engine reads: area, tilt, azimuth, r, alpha, g, F_sh
CircuitPlane(name, type, area, tilt, azimuth, r, alpha, epsilon, g, F_sh) ==
    [name |-> name, type |-> type, area |-> area, tilt |-> tilt, azimuth |-> azimuth,
     r |-> r, alpha |-> alpha, epsilon |-> epsilon, g |-> g, F_sh |-> F_sh]

\* Plane.R(): resistance of the whole plane in K/W
PlaneR(p) == RDiv(p.r, p.area)

\* the AirSide the thermal-circuit and RC engines read: volume and infiltration
CircuitAir(volume, infiltration) == [volume |-> volume, infiltration |-> infiltration]

\* InternalGains.total() in kW
total(gains) == RAdd(RAdd(gains[1], gains[2]), gains[3])

\* a scalar argument, or one value per row
Scalar(x) == [isscalar |-> TRUE, x |-> x, xs |-> <<>>]

Array(xs) == [isscalar |-> FALSE, x |-> Zero, xs |-> xs]

\* lines 39, 43: np.full(n, x) if np.isscalar(x) else np.asarray(x)
Broadcast(a, n) == IF a.isscalar THEN [k \in 1..n |-> a.x] ELSE a.xs

\* lines 41-42: vent_ACH = 0.0 if it is None
VentArg(vent_ACH) ==
    IF vent_ACH.isscalar /\ vent_ACH.x = None THEN Scalar(Zero) ELSE vent_ACH

\* line 50: the sum the parallel window resistance divides by
WindowConductance(planes) ==
    SumSeq([k \in 1..Len(planes) |->
              IF is_window(planes[k]) THEN RDiv(planes[k].area, planes[k].r) ELSE Zero])

\* lines 53-54
InfiltrationR(air) ==
    LET Vdot_inf == RDiv(RMul(air.infiltration, air.volume), RI(3600))
    IN  IF RLt(Zero, Vdot_inf) THEN RDiv(One, RMul(RMul(RHO_AIR, CP_AIR), Vdot_inf)) ELSE Inf

\* a smallest flow in place of the sentinel
VentilationR_floor(air, vent) ==
    LET Vdot_vent == RMax(RDiv(RMul(vent, air.volume), RI(3600)), Q(1, 1000))
    IN  RDiv(One, RMul(RMul(RHO_AIR, CP_AIR), Vdot_vent))

\* lines 57-58, for one row
VentilationR(air, vent) ==
    LET Vdot_vent == RDiv(RMul(vent, air.volume), RI(3600))
    IN  IF RLt(Zero, Vdot_vent) THEN RDiv(One, RMul(RMul(RHO_AIR, CP_AIR), Vdot_vent)) ELSE Inf

\* lines 67-68
CircuitIrr(w, plane) ==
    [k \in 1..Len(w.rows) |->
        irradiance_on_plane(w.rows[k].I_dir_Wm2, w.rows[k].I_dif_Wm2,
            cos_inc(w.rows[k].theta_s_deg, w.rows[k].phi_s_deg, plane.tilt, plane.azimuth),
            plane.tilt)]

\* lines 38-64: the first exception the set-up raises, or None
CircuitSetupError(i) ==
    IF "T_out_C" \notin i.weather.cols THEN <<"KeyError", "T_out_C">>
    ELSE IF WindowConductance(i.planes) = Zero THEN <<"ZeroDivisionError", "R_win">>
    ELSE IF "theta_s_deg" \notin i.weather.cols THEN <<"KeyError", "theta_s_deg">>
    ELSE IF "phi_s_deg" \notin i.weather.cols THEN <<"KeyError", "phi_s_deg">>
    ELSE IF "I_dir_Wm2" \notin i.weather.cols THEN <<"KeyError", "I_dir_Wm2">>
    ELSE IF "I_dif_Wm2" \notin i.weather.cols THEN <<"KeyError", "I_dif_Wm2">>
    ELSE None

\* lines 70-79: what one iteration raises (arithmetic on a None attribute), or None
CircuitPlaneError(plane) ==
    IF is_opaque(plane) /\ plane.alpha = None THEN <<plane.name, "alpha">>
    ELSE IF is_window(plane) /\ (plane.g = None \/ plane.F_sh = None) THEN <<plane.name, "g">>
    ELSE None

\* the accumulators after an iteration that counts only upright planes as walls
CircuitAccumulate_upright(a, w, plane, T_in) ==
    LET n == Len(w.rows)
        I_sol == CircuitIrr(w, plane)
        Qp(k) == RDiv(RSub(T_in[k], sol_air(w.rows[k].T_out_C, I_sol[k], plane.alpha, H_E)),
                      PlaneR(plane))
    IN  IF is_opaque(plane)
        THEN IF plane.tilt = Zero
             THEN [a EXCEPT !.Q_roof = [k \in 1..n |-> RAdd(a.Q_roof[k], Qp(k))]]
             ELSE IF plane.tilt = RI(90)
             THEN [a EXCEPT !.Q_walls = [k \in 1..n |-> RAdd(a.Q_walls[k], Qp(k))]]
             ELSE a
        ELSE IF is_window(plane)
        THEN [a EXCEPT !.Q_solar = [k \in 1..n |->
                RAdd(a.Q_solar[k],
                     RMul(RMul(RMul(plane.g, plane.area), I_sol[k]), plane.F_sh))]]
        ELSE a

\* lines 70-79: the accumulators after one iteration
CircuitAccumulate(a, w, plane, T_in) ==
    LET n == Len(w.rows)
        I_sol == CircuitIrr(w, plane)
        Qp(k) == RDiv(RSub(T_in[k], sol_air(w.rows[k].T_out_C, I_sol[k], plane.alpha, H_E)),
                      PlaneR(plane))
    IN  IF is_opaque(plane)
        THEN IF plane.tilt = Zero
             THEN [a EXCEPT !.Q_roof = [k \in 1..n |-> RAdd(a.Q_roof[k], Qp(k))]]
             ELSE [a EXCEPT !.Q_walls = [k \in 1..n |-> RAdd(a.Q_walls[k], Qp(k))]]
        ELSE IF is_window(plane)
        THEN [a EXCEPT !.Q_solar = [k \in 1..n |->
                RAdd(a.Q_solar[k],
                     RMul(RMul(RMul(plane.g, plane.area), I_sol[k]), plane.F_sh))]]
        ELSE a

\* line 85
CircuitInternalGain(gains) == IF gains # None THEN RMul(total(gains), RI(1000)) ELSE Zero

\* lines 87 and rc_model.py 168
HeatingDemand(Q_roof, Q_walls, Q_win, Q_inf, Q_vent, Q_solar, Q_int) ==
    RMax(Zero, RSub(RSub(RAdd(RAdd(RAdd(RAdd(Q_roof, Q_walls), Q_win), Q_inf), Q_vent),
                         Q_solar), Q_int))

\* lines 81-102
CircuitTable(i, a) ==
    [k \in 1..Len(i.weather.rows) |->
        LET T_out == i.weather.rows[k].T_out_C
            T_in == Broadcast(i.T_set, Len(i.weather.rows))[k]
            vent == Broadcast(VentArg(i.vent_ACH), Len(i.weather.rows))[k]
            Q_win == RDiv(RSub(T_in, T_out), a.R_win)
            Q_inf == OverR(RSub(T_in, T_out), InfiltrationR(i.air))
            Q_vent == OverR(RSub(T_in, T_out), VentilationR(i.air, vent))
            Q_int == CircuitInternalGain(i.gains)
        IN  [timestamp |-> i.weather.rows[k].timestamp,
             T_out_C |-> T_out, T_int_C |-> T_in, vent_ACH |-> vent,
             Q_roof_W |-> a.Q_roof[k], Q_walls_W |-> a.Q_walls[k],
             Q_win_W |-> Q_win, Q_inf_W |-> Q_inf, Q_vent_W |-> Q_vent,
             Q_solar_W |-> a.Q_solar[k], Q_int_W |-> Q_int,
             Q_heat_W |-> HeatingDemand(a.Q_roof[k], a.Q_walls[k], Q_win, Q_inf, Q_vent,
                                         a.Q_solar[k], Q_int)]]

\* lines 32-64: entry and set-up
src_run_hourly_enter(i) ==
    /\ inp' = i
    /\ IF CircuitSetupError(i) # None
       THEN /\ pc' = "raised"
            /\ out' = Raised(CircuitSetupError(i)[1], "setup", <<CircuitSetupError(i)[2]>>)
            /\ acc' = None
       ELSE /\ pc' = "circuit_planes"
            /\ out' = NoCall
            /\ acc' = [p |-> 1,
                       Q_roof |-> Zeros(Len(i.weather.rows)),
                       Q_walls |-> Zeros(Len(i.weather.rows)),
                       Q_solar |-> Zeros(Len(i.weather.rows)),
                       R_win |-> RDiv(One, WindowConductance(i.planes))]

\* lines 66-79: one iteration of `for plane in planes`
src_run_hourly_plane ==
    /\ pc = "circuit_planes"
    /\ acc.p <= Len(inp.planes)
    /\ LET plane == inp.planes[acc.p]
           T_in == Broadcast(inp.T_set, Len(inp.weather.rows))
       IN  IF CircuitPlaneError(plane) # None
           THEN /\ pc' = "raised"
                /\ out' = Raised("TypeError", "None", CircuitPlaneError(plane))
                /\ acc' = acc
           ELSE /\ pc' = "circuit_planes"
                /\ out' = out
                /\ acc' = [CircuitAccumulate(acc, inp.weather, plane, T_in) EXCEPT !.p = acc.p + 1]
    /\ UNCHANGED <<inp, prev>>

\* lines 81-102: branch flows, demand and the returned DataFrame
src_run_hourly_return ==
    /\ pc = "circuit_planes"
    /\ acc.p > Len(inp.planes)
    /\ IF "timestamp" \notin inp.weather.cols
       THEN /\ pc' = "raised"
            /\ out' = Raised("KeyError", "return", <<"timestamp">>)
       ELSE /\ pc' = "returned"
            /\ out' = Returned(CircuitTable(inp, acc))
    /\ UNCHANGED <<inp, acc, prev>>

(***************************************************************************)
(* src/src/rc_model.py : 3-resistance RC network                           *)
(***************************************************************************)
calc_T_C_explicit(T_C_prev, T_int_curr, T_int_prev, T_ext_curr, T_ext_prev, I_sol_curr, I_sol_prev, R1, R2, R3, C, alpha, tau) ==
    LET R_ext == RAdd(R2, R3)
        solar_factor == RDiv(RMul(alpha, R3), R_ext)
        storage == RDiv(RMul(RI(2), C), tau)
        numerator ==
            RAdd(RAdd(RAdd(RDiv(RAdd(T_int_curr, T_int_prev), R1),
                           RDiv(RAdd(T_ext_curr, T_ext_prev), R_ext)),
                      RMul(solar_factor, RAdd(I_sol_curr, I_sol_prev))),
                 RMul(RSub(RSub(storage, RDiv(RI(2), R1)), RDiv(RI(2), R_ext)), T_C_prev))
    IN  RDiv(numerator, storage)

\* the absorbed irradiance entering the mass node undivided
calc_T_C_filmless(T_C_prev, T_int_curr, T_int_prev, T_ext_curr, T_ext_prev, I_sol_curr, I_sol_prev, R1, R2, R3, C, alpha, tau) ==
    LET R_ext == RAdd(R2, R3)
        storage == RDiv(RMul(RI(2), C), tau)
        numerator ==
            RAdd(RAdd(RAdd(RDiv(RAdd(T_int_curr, T_int_prev), R1),
                           RDiv(RAdd(T_ext_curr, T_ext_prev), R_ext)),
                      RMul(alpha, RAdd(I_sol_curr, I_sol_prev))),
                 RMul(RSub(RSub(storage, RDiv(One, R1)), RDiv(One, R_ext)), T_C_prev))
        denominator == RAdd(RAdd(storage, RDiv(One, R1)), RDiv(One, R_ext))
    IN  RDiv(numerator, denominator)

calc_T_C(T_C_prev, T_int_curr, T_int_prev, T_ext_curr, T_ext_prev, I_sol_curr, I_sol_prev, R1, R2, R3, C, alpha, tau) ==
    LET R_ext == RAdd(R2, R3)
        solar_factor == RDiv(RMul(alpha, R3), R_ext)
        storage == RDiv(RMul(RI(2), C), tau)
        numerator ==
            RAdd(RAdd(RAdd(RDiv(RAdd(T_int_curr, T_int_prev), R1),
                           RDiv(RAdd(T_ext_curr, T_ext_prev), R_ext)),
                      RMul(solar_factor, RAdd(I_sol_curr, I_sol_prev))),
                 RMul(RSub(RSub(storage, RDiv(One, R1)), RDiv(One, R_ext)), T_C_prev))
        denominator == RAdd(RAdd(storage, RDiv(One, R1)), RDiv(One, R_ext))
    IN  RDiv(numerator, denominator)

calc_heat_flux(T_C, T_int, R1) == RDiv(RSub(T_C, T_int), R1)

\* line 99
T_init == RI(10)

Surfaces == {"roof", "N", "S", "E", "W"}

\* lines 87-91: tilt and azimuth the engine assumes for each surface
SurfaceTilt(s) == IF s = "roof" THEN RI(0) ELSE RI(90)

SurfaceAzimuth(s) ==
    CASE s = "roof" -> RI(0) [] s = "N" -> RI(0) [] s = "S" -> RI(180)
      [] s = "E" -> RI(90) [] s = "W" -> RI(270)

\* envelope['roof'] / envelope['walls'][s]
Node(envelope, s) == IF s = "roof" THEN envelope.roof ELSE envelope.walls[s]

\* the weather rows as they were passed in
Resample_asgiven(rows, dt_minutes) == [s \in 1..Len(rows) |-> rows[s]]

\* lines 64-69: weather.set_index('timestamp').resample(f'{dt_minutes}min')
\* .interpolate(method='linear').reset_index(): one row every dt_minutes from the
\* first timestamp to the last, values linear between the rows that are given
Resample(rows, dt_minutes) ==
    LET t(k) == rows[k].timestamp[1]
        n_steps == ((t(Len(rows)) - t(1)) \div dt_minutes) + 1
        At(ts) ==
            LET k == CHOOSE j \in 1..Len(rows) :
                        /\ t(j) <= ts
                        /\ j = Len(rows) \/ ts < t(j + 1)
            IN  [c \in AllCols |->
                    IF c = "timestamp" THEN RI(ts)
                    ELSE IF t(k) = ts THEN rows[k][c]
                    ELSE RAdd(rows[k][c],
                              RMul(RSub(rows[k + 1][c], rows[k][c]),
                                   Q(ts - t(k), t(k + 1) - t(k))))]
    IN  [s \in 1..n_steps |-> At(t(1) + (s - 1) * dt_minutes)]

\* lines 87-97: irradiance on surface s at every step
SurfaceIrr(w, s) ==
    [k \in 1..Len(w) |->
        irradiance_on_plane(w[k].I_dir_Wm2, w[k].I_dif_Wm2,
            cos_inc(w[k].theta_s_deg, w[k].phi_s_deg, SurfaceTilt(s), SurfaceAzimuth(s)),
            SurfaceTilt(s))]

\* every node given the capacitance of the roof
NodeUpdate_roofmass(a, i, s, p) ==
    LET nd == Node(i.envelope, s)
    IN  calc_T_C(a.T_C[s][p - 1], i.T_set, i.T_set,
                 a.weather_interp[p].T_out_C, a.weather_interp[p - 1].T_out_C,
                 a.I_sol[s][p], a.I_sol[s][p - 1],
                 nd.R1, nd.R2, nd.R3, i.envelope.roof.C, nd.alpha, RI(i.dt_minutes * 60))

\* every wall driven by the irradiance on the south wall
NodeUpdate_south(a, i, s, p) ==
    LET nd == Node(i.envelope, s)
        f == IF s = "roof" THEN "roof" ELSE "S"
    IN  calc_T_C(a.T_C[s][p - 1], i.T_set, i.T_set,
                 a.weather_interp[p].T_out_C, a.weather_interp[p - 1].T_out_C,
                 a.I_sol[f][p], a.I_sol[f][p - 1],
                 nd.R1, nd.R2, nd.R3, nd.C, nd.alpha, RI(i.dt_minutes * 60))

\* lines 108-127: T_C of surface s at step p (arrays are 1-based here: p >= 2)
NodeUpdate(a, i, s, p) ==
    LET nd == Node(i.envelope, s)
    IN  calc_T_C(a.T_C[s][p - 1], i.T_set, i.T_set,
                 a.weather_interp[p].T_out_C, a.weather_interp[p - 1].T_out_C,
                 a.I_sol[s][p], a.I_sol[s][p - 1],
                 nd.R1, nd.R2, nd.R3, nd.C, nd.alpha, RI(i.dt_minutes * 60))

\* the flux into the room taken for the loss
SurfaceLoss_unflipped(a, i, s, k) ==
    RMul(calc_heat_flux(a.T_C[s][k], i.T_set, Node(i.envelope, s).R1),
         Node(i.envelope, s).area)

\* lines 129-141: loss through surface s at step k
SurfaceLoss(a, i, s, k) ==
    RMul(RNeg(calc_heat_flux(a.T_C[s][k], i.T_set, Node(i.envelope, s).R1)),
         Node(i.envelope, s).area)

\* lines 129-189
RCTable(i, a) ==
    [k \in 1..Len(a.weather_interp) |->
        LET T_out == a.weather_interp[k].T_out_C
            T_int == i.T_set
            windows == i.envelope.windows
            Q_roof == SurfaceLoss(a, i, "roof", k)
            Q_walls == RAdd(RAdd(RAdd(SurfaceLoss(a, i, "N", k), SurfaceLoss(a, i, "S", k)),
                                 SurfaceLoss(a, i, "E", k)), SurfaceLoss(a, i, "W", k))
            U_win == RDiv(One, windows.R)
            Q_win == RMul(RMul(U_win, windows.area), RSub(T_int, T_out))
            I_sol_win == irradiance_on_plane(a.weather_interp[k].I_dir_Wm2,
                            a.weather_interp[k].I_dif_Wm2,
                            cos_inc(a.weather_interp[k].theta_s_deg,
                                    a.weather_interp[k].phi_s_deg, RI(90), RI(180)),
                            RI(90))
            Q_solar == RMul(RMul(windows.g, windows.area), I_sol_win)
            Vdot_inf == RDiv(RMul(i.air.infiltration, i.air.volume), RI(3600))
            Q_inf == RMul(RMul(RMul(RHO_AIR, CP_AIR), Vdot_inf), RSub(T_int, T_out))
            Vdot_vent == RDiv(RMul(i.vent_ACH, i.air.volume), RI(3600))
            Q_vent == IF RLt(Zero, Vdot_vent)
                      THEN RMul(RMul(RMul(RHO_AIR, CP_AIR), Vdot_vent), RSub(T_int, T_out))
                      ELSE Zero
            Q_int == RMul(total(i.gains), RI(1000))
        IN  [timestamp |-> a.weather_interp[k].timestamp,
             T_out_C |-> T_out, T_int_C |-> T_int,
             T_C_roof |-> a.T_C["roof"][k], T_C_N |-> a.T_C["N"][k],
             T_C_S |-> a.T_C["S"][k], T_C_E |-> a.T_C["E"][k], T_C_W |-> a.T_C["W"][k],
             I_sol_roof |-> a.I_sol["roof"][k], I_sol_S |-> a.I_sol["S"][k],
             Q_roof_W |-> Q_roof, Q_walls_W |-> Q_walls, Q_win_W |-> Q_win,
             Q_inf_W |-> Q_inf, Q_vent_W |-> Q_vent, Q_solar_W |-> Q_solar,
             Q_int_W |-> Q_int,
             Q_heat_W |-> HeatingDemand(Q_roof, Q_walls, Q_win, Q_inf, Q_vent, Q_solar, Q_int)]]

\* T_C arrays that start at the outdoor temperature
InitialTC_ambient(w) == [k \in 1..Len(w) |-> w[k].T_out_C]

\* T_C arrays that start where the roof node of the call before ended
InitialTC_carried(w) ==
    [k \in 1..Len(w) |->
        IF pc = "returned" /\ inp.fn = "src.rc_model.run_rc_hourly"
        THEN acc.T_C["roof"][Len(acc.T_C["roof"])] ELSE T_init]

\* lines 99-104: np.full(n_steps, T_init)
InitialTC(w) == [k \in 1..Len(w) |-> T_init]

\* lines 63-104: resampling, irradiance and the T_C arrays filled with T_init
run_rc_hourly_enter(i) ==
    /\ inp' = i
    /\ pc' = "rc_steps"
    /\ out' = NoCall
    /\ LET w == Resample(i.weather.rows, i.dt_minutes)
       IN  acc' = [p |-> 1,
                   weather_interp |-> w,
                   I_sol |-> [s \in Surfaces |-> SurfaceIrr(w, s)],
                   T_C |-> [s \in Surfaces |-> InitialTC(w)]]

\* lines 107-127: one iteration of `for p in range(1, n_steps)`
run_rc_hourly_step ==
    /\ pc = "rc_steps"
    /\ acc.p < Len(acc.weather_interp)
    /\ acc' = [acc EXCEPT
                 !.p = acc.p + 1,
                 !.T_C = [s \in Surfaces |->
                            [acc.T_C[s] EXCEPT ![acc.p + 1] = NodeUpdate(acc, inp, s, acc.p + 1)]]]
    /\ UNCHANGED <<pc, inp, out, prev>>

\* lines 129-189: fluxes, demand and the returned DataFrame
run_rc_hourly_return ==
    /\ pc = "rc_steps"
    /\ acc.p >= Len(acc.weather_interp)
    /\ pc' = "returned"
    /\ out' = Returned(RCTable(inp, acc))
    /\ UNCHANGED <<inp, acc, prev>>

(***************************************************************************)
(* Arguments the caller passes to run_hourly of src/src/physics.py.        *)
(***************************************************************************)
CircuitRoster ==
    <<CircuitPlane("Win-S", "window", RI(4), RI(90), RI(180), Q(1, 2), None, None, Q(4, 5), One),
      CircuitPlane("Roof", "opaque", RI(20), RI(0), RI(0), RI(2), Q(3, 5), Q(9, 10), None, One),
      CircuitPlane("Wall-S", "opaque", RI(10), RI(90), RI(180), RI(2), Q(3, 5), Q(9, 10), None, One),
      CircuitPlane("Win-E", "window", RI(5), RI(90), RI(90), Q(1, 2), None, None, Q(1, 2), Q(1, 2)),
      CircuitPlane("Wall-X", "opaque", RI(10), RI(90), RI(0), RI(2), None, Q(9, 10), None, One)>>

\* <<air, gains>>
CircuitAirGains ==
    {<<CircuitAir(RI(120), Zero), None>>,
     <<CircuitAir(RI(120), Q(1, 2)), <<Q(1, 5), Zero, Zero>>>>}

\* one value per row: x on odd rows, y on even rows
Alternating(n, x, y) == Array([k \in 1..n |-> IF k % 2 = 1 THEN x ELSE y])

\* a constant setpoint, or a night set-back on even rows
CircuitSetpoint(n, constant) ==
    IF constant THEN Scalar(RI(20)) ELSE Alternating(n, RI(20), RI(16))

\* no ventilation argument, or ventilation on odd rows only
CircuitVent(n, absent) == IF absent THEN Scalar(None) ELSE Alternating(n, Q(1, 2), Zero)

\* a whole house: a window, the roof, a wall and a floor slab facing down
CircuitHouse ==
    <<CircuitRoster[1], CircuitRoster[2], CircuitRoster[3],
      CircuitPlane("Floor", "opaque", RI(20), RI(180), RI(0), RI(2), Q(3, 5), Q(9, 10), None, One)>>

CircuitInputs ==
    {[fn |-> "src.physics.run_hourly",
      weather |-> WeatherTable(cols, 60, smp), planes |-> pl, air |-> ag[1],
      T_set |-> CircuitSetpoint(Len(smp), ts), vent_ACH |-> CircuitVent(Len(smp), vn),
      gains |-> ag[2]] :
        cols \in SteadyCols, smp \in Windows(SteadyDay, MaxRows),
        pl \in Sublists(CircuitRoster, MaxPlanes) \cup {CircuitHouse}, ag \in CircuitAirGains,
        ts \in BOOLEAN, vn \in BOOLEAN}

(***************************************************************************)
(* Arguments the caller passes to run_rc_hourly.                           *)
(***************************************************************************)
\* one thermal-mass node of the envelope dictionary
RCNode(R1, R2, R3, C, alpha, area) ==
    [R1 |-> R1, R2 |-> R2, R3 |-> R3, C |-> C, alpha |-> alpha, area |-> area]

\* the envelope dictionary: the four walls share a construction, areas differ
Envelope(wall, roof, windows) ==
    [roof |-> roof,
     walls |-> [s \in {"N", "S", "E", "W"} |->
                  [wall EXCEPT !.area = IF s = "N" THEN RI(2) ELSE RI(1)]],
     windows |-> windows]

\* mild night / two hours of frost / sunny noon
RCDay ==
    <<Sample(21, 0, 0, 120, 180, 10), Sample(-3, 0, 0, 120, 180, 10),
      Sample(-3, 0, 0, 120, 180, 10), Sample(10, 500, 100, 60, 180, 10)>>

RCWindows == [R |-> Q(1, 2), area |-> RI(2), g |-> Q(4, 5)]

\* light, heavy and very light construction (C in J/m2K)
RCEnvelopes ==
    {Envelope(RCNode(One, Q(1, 2), Q(1, 2), RI(5400), Q(3, 5), One),
              RCNode(One, Q(3, 4), Q(1, 4), RI(5400), Q(4, 5), RI(4)), RCWindows),
     Envelope(RCNode(One, Q(1, 2), Q(1, 2), RI(12600), Q(3, 5), One),
              RCNode(One, Q(3, 4), Q(1, 4), RI(12600), Q(4, 5), RI(4)), RCWindows),
     Envelope(RCNode(One, Q(1, 2), Q(1, 2), RI(600), Q(3, 5), One),
              RCNode(One, Q(3, 4), Q(1, 4), RI(5400), Q(4, 5), RI(4)), RCWindows)}

RCSteps == {30, 60, 120}

\* every interpolated solar angle is one the cosine table holds
Tabulated(rows, dt_minutes) ==
    \A k \in 1..Len(Resample(rows, dt_minutes)) :
        \A c \in {"theta_s_deg", "phi_s_deg"} :
            LET x == Resample(rows, dt_minutes)[k][c] IN x[2] = 1 /\ x[1] % 30 = 0

RCInputs ==
    {[fn |-> "src.rc_model.run_rc_hourly",
      weather |-> WeatherTable(AllCols, 60, smp), envelope |-> env,
      air |-> CircuitAir(RI(120), Q(1, 2)), T_set |-> ts,
      vent_ACH |-> vn, gains |-> gn, dt_minutes |-> dt] :
        smp \in {x \in Windows(RCDay, MaxRows) :
                    \A dt \in RCSteps : Tabulated(WeatherTable(AllCols, 60, x).rows, dt)},
        env \in RCEnvelopes, ts \in {RI(21)}, vn \in {Zero, Q(1, 2)},
        gn \in {<<Zero, Zero, Zero>>, <<Q(1, 5), Zero, Zero>>},
        dt \in RCSteps}

Init ==
    /\ pc = "idle"
    /\ inp = None
    /\ acc = None
    /\ out = NoCall
    /\ prev = NoCall

\* the caller invokes run_hourly of src/physics.py
run_hourly_call ==
    /\ pc = "idle"
    /\ \E i \in SteadyInputs : run_hourly_enter(i)
    /\ UNCHANGED prev

\* the caller invokes run_hourly of src/src/physics.py
src_run_hourly_call ==
    /\ pc = "idle"
    /\ \E i \in CircuitInputs : src_run_hourly_enter(i)
    /\ UNCHANGED prev

\* the caller invokes run_rc_hourly
run_rc_hourly_call ==
    /\ pc = "idle"
    /\ \E i \in RCInputs : run_rc_hourly_enter(i)
    /\ UNCHANGED prev

Next ==
    \/ run_hourly_call \/ run_hourly_plane \/ run_hourly_return
    \/ src_run_hourly_call \/ src_run_hourly_plane \/ src_run_hourly_return
    \/ run_rc_hourly_call \/ run_rc_hourly_step \/ run_rc_hourly_return

Spec == Init /\ [][Next]_vars

(***************************************************************************)
(* Two calls in a row, as the drivers make them (main.py: cold and hot     *)
(* design day; rc_main.py: light and heavy envelope; sensitivity.py: one   *)
(* argument varied at a time).  prev keeps the first call for comparison.  *)
(***************************************************************************)
Called(i, o) == [status |-> "called", inp |-> i, out |-> o]

EveryPlane(i, f(_)) == [i EXCEPT !.planes = [k \in 1..Len(i.planes) |-> f(i.planes[k])]]

EveryRow(i, f(_)) ==
    [i EXCEPT !.weather.rows = [k \in 1..Len(i.weather.rows) |-> f(i.weather.rows[k])]]

\* the same call under an overcast sky
Dark(i) == EveryRow(i, LAMBDA r : [r EXCEPT !.I_dir_Wm2 = Zero, !.I_dif_Wm2 = Zero])

\* the same call with every absorptance that is given changed
Repaint(i) ==
    EveryPlane(i, LAMBDA p : IF p.alpha = None THEN p ELSE [p EXCEPT !.alpha = Q(1, 5)])

\* the same call with other glazing
Reglaze(i) ==
    EveryPlane(i, LAMBDA p : IF p.g = None THEN p ELSE [p EXCEPT !.g = Q(1, 5), !.F_sh = One])

\* the same call with the other internal and kitchen gains
Regain(i) ==
    LET ex == CHOOSE e \in SteadyExtras : e[1] # i.gains
    IN  [i EXCEPT !.gains = ex[1], !.kitchen_kw = ex[2],
                  !.kitchen_on = IF ex[3] THEN KitchenOn(Len(i.weather.rows)) ELSE None]

PairSteadyInputs ==
    {RunHourlyArgs(AllCols, smp, pl, air, <<RI(20), RI(24)>>, ex) :
        smp \in Windows(SteadyDay, MaxRows),
        pl \in Sublists(SubSeq(SteadyRoster, 1, 4), MaxPlanes),
        air \in SteadyAir, ex \in SteadyExtras}

SteadyVariants(i) ==
    {i, Dark(i), Repaint(i), Reglaze(i), Regain(i), Dark(Repaint(Reglaze(Regain(i))))}

\* the same call with other internal gains (thermal-circuit and RC engines)
CircuitRegain(i) ==
    [i EXCEPT !.gains = IF i.gains = <<Q(1, 5), Zero, Zero>>
                        THEN <<Zero, Zero, Zero>> ELSE <<Q(1, 5), Zero, Zero>>]

PairCircuitInputs ==
    {[fn |-> "src.physics.run_hourly",
      weather |-> WeatherTable(AllCols, 60, smp), planes |-> pl, air |-> ag[1],
      T_set |-> CircuitSetpoint(Len(smp), ts), vent_ACH |-> CircuitVent(Len(smp), FALSE),
      gains |-> ag[2]] :
        smp \in Windows(SteadyDay, MaxRows),
        pl \in Sublists(SubSeq(CircuitRoster, 1, 4), MaxPlanes), ag \in CircuitAirGains,
        ts \in BOOLEAN}

CircuitVariants(i) == {i, Reglaze(i), CircuitRegain(i), Dark(i)}

\* the next heavier construction of the model
Heavier(C) == IF C = RI(600) THEN RI(5400) ELSE RI(12600)

\* the same call with other glazing
RCReglaze(i) == [i EXCEPT !.envelope.windows.g = Q(1, 5)]

\* the same call with more thermal mass in the walls, the roof, or both
RCHeavier(i, walls, roof) ==
    [i EXCEPT
        !.envelope.roof.C = IF roof THEN Heavier(@) ELSE @,
        !.envelope.walls = [s \in DOMAIN @ |->
                              [@[s] EXCEPT !.C = IF walls THEN Heavier(@) ELSE @]]]

\* the same call with another south wall: better insulated, darker, larger
RCRebuildSouth(i) ==
    [i EXCEPT !.envelope.walls["S"] = RCNode(RI(2), One, Q(1, 2), RI(12600), Q(4, 5), RI(3))]

RCVariants(i) ==
    {i, RCReglaze(i), CircuitRegain(i), RCHeavier(i, TRUE, TRUE), RCHeavier(i, TRUE, FALSE),
     RCHeavier(i, FALSE, TRUE), RCRebuildSouth(i)}

first_run_hourly ==
    /\ pc = "idle"
    /\ \E i \in PairSteadyInputs : run_hourly_enter(i)
    /\ UNCHANGED prev

second_run_hourly ==
    /\ pc = "returned" /\ prev.status = "none" /\ inp.fn = "physics.run_hourly"
    /\ \E i \in SteadyVariants(inp) : run_hourly_enter(i)
    /\ prev' = Called(inp, out)

first_src_run_hourly ==
    /\ pc = "idle"
    /\ \E i \in PairCircuitInputs : src_run_hourly_enter(i)
    /\ UNCHANGED prev

second_src_run_hourly ==
    /\ pc = "returned" /\ prev.status = "none" /\ inp.fn = "src.physics.run_hourly"
    /\ \E i \in CircuitVariants(inp) : src_run_hourly_enter(i)
    /\ prev' = Called(inp, out)

first_run_rc_hourly ==
    /\ pc = "idle"
    /\ \E i \in RCInputs : run_rc_hourly_enter(i)
    /\ UNCHANGED prev

second_run_rc_hourly ==
    /\ pc = "returned" /\ prev.status = "none" /\ inp.fn = "src.rc_model.run_rc_hourly"
    /\ \E i \in RCVariants(inp) : run_rc_hourly_enter(i)
    /\ prev' = Called(inp, out)

NextPair ==
    \/ first_run_hourly \/ second_run_hourly \/ run_hourly_plane \/ run_hourly_return
    \/ first_src_run_hourly \/ second_src_run_hourly
    \/ src_run_hourly_plane \/ src_run_hourly_return
    \/ first_run_rc_hourly \/ second_run_rc_hourly
    \/ run_rc_hourly_step \/ run_rc_hourly_return

SpecPair == Init /\ [][NextPair]_vars

(***************************************************************************)
(* calc_T_C iterated on one node held at equilibrium forcing:              *)
(* T_int = T_ext = T_star at every step and no irradiance.                 *)
(***************************************************************************)
MaxNodeSteps == 6

NodeInputs ==
    {[fn |-> "src.rc_model.calc_T_C", R1 |-> r[1], R2 |-> r[2], R3 |-> r[3], C |-> RI(c),
      alpha |-> Q(3, 5), tau |-> RI(dt * 60), T_star |-> RI(ts), T_C0 |-> RI(t0)] :
        r \in {<<One, Q(1, 2), Q(1, 2)>>, <<Q(1, 2), Q(1, 4), Q(1, 4)>>},
        c \in {900, 5400, 10800}, dt \in {30, 60}, ts \in {15, 20}, t0 \in {10, 20, 25}}

InitNode ==
    /\ pc = "node"
    /\ inp \in NodeInputs
    /\ acc = [p |-> 0, T_C |-> <<inp.T_C0>>]
    /\ out = NoCall
    /\ prev = NoCall

\* rc_model.py lines 107-111 for one node: T_C[p] from T_C[p-1]
\* (the array is 1-based here: T_C[p] of the code is acc.T_C[p + 1])
node_step ==
    /\ pc = "node"
    /\ acc.p < MaxNodeSteps
    /\ acc' = [p |-> acc.p + 1,
               T_C |-> Append(acc.T_C,
                          calc_T_C(acc.T_C[acc.p + 1], inp.T_star, inp.T_star, inp.T_star,
                                   inp.T_star, Zero, Zero, inp.R1, inp.R2, inp.R3, inp.C,
                                   inp.alpha, inp.tau))]
    /\ UNCHANGED <<pc, inp, out, prev>>

NextNode == node_step

SpecNode == InitNode /\ [][NextNode]_vars

\* the time loop runs to its end
SpecNodeFair == SpecNode /\ WF_vars(node_step)

(***************************************************************************)
(* The irradiance routines called on their own, on readings of either sign  *)
(* and with the sun before, beside and behind the plane.                    *)
(***************************************************************************)
IrradianceArgs ==
    {[I_dir |-> RI(b), I_dif |-> RI(d), cos_i |-> c, tilt |-> RI(t)] :
        b \in {-5, 0, 500}, d \in {-2, 0, 100},
        c \in {RI(-1), Q(-1, 2), Zero, Q(1, 2), One}, t \in {0, 30, 90, 180}}

\* what a routine called on its own hands back
Value(v) == [status |-> "ok", value |-> v]

\* src/physics.py lines 15-19
plane_irradiance_call ==
    /\ pc = "idle"
    /\ \E a \in IrradianceArgs :
          /\ inp' = [fn |-> "physics.plane_irradiance", args |-> a]
          /\ out' = Value(plane_irradiance(a.I_dir, a.I_dif, a.cos_i, a.tilt))
    /\ pc' = "returned"
    /\ UNCHANGED <<acc, prev>>

\* src/src/physics.py lines 20-24
irradiance_on_plane_call ==
    /\ pc = "idle"
    /\ \E a \in IrradianceArgs :
          /\ inp' = [fn |-> "src.physics.irradiance_on_plane", args |-> a]
          /\ out' = Value(irradiance_on_plane(a.I_dir, a.I_dif, a.cos_i, a.tilt))
    /\ pc' = "returned"
    /\ UNCHANGED <<acc, prev>>

NextIrradiance == plane_irradiance_call \/ irradiance_on_plane_call

SpecIrradiance == Init /\ [][NextIrradiance]_vars

(***************************************************************************)
(* One node of run_rc_hourly under forcing that does not change: indoor    *)
(* temperature, outdoor temperature and irradiance are the same at every   *)
(* step.  The node starts at T_init or where the forcing would hold it.    *)
(***************************************************************************)
\* (T_int/R1 + (T_out + alpha*R3*I)/(R2+R3)) / (1/R1 + 1/(R2+R3))
Held(R1, R2, R3, alpha, T_int, T_out, I) ==
    RDiv(RAdd(RDiv(T_int, R1), RDiv(RAdd(T_out, RMul(RMul(alpha, R3), I)), RAdd(R2, R3))),
         RAdd(RDiv(One, R1), RDiv(One, RAdd(R2, R3))))

ForcedInputs ==
    {[fn |-> "src.rc_model.calc_T_C", R1 |-> r[1], R2 |-> r[2], R3 |-> r[3], C |-> RI(c),
      alpha |-> Q(3, 5), area |-> RI(20), tau |-> RI(dt * 60), T_int |-> RI(20),
      T_out |-> RI(to), I_sol |-> RI(I),
      T_C0 |-> IF held THEN Held(r[1], r[2], r[3], Q(3, 5), RI(20), RI(to), RI(I)) ELSE T_init] :
        r \in {<<One, Q(1, 2), Q(1, 2)>>, <<Q(1, 2), Q(1, 4), Q(1, 4)>>},
        c \in {5400, 10800}, dt \in {30, 60}, to \in {0, 10}, I \in {0, 500},
        held \in BOOLEAN}

InitForced ==
    /\ pc = "forced"
    /\ inp \in ForcedInputs
    /\ acc = [p |-> 0, T_C |-> <<inp.T_C0>>]
    /\ out = NoCall
    /\ prev = NoCall

\* rc_model.py lines 107-111 for one node: T_C[p] from T_C[p-1]
\* (the array is 1-based here: T_C[p] of the code is acc.T_C[p + 1])
forced_step ==
    /\ pc = "forced"
    /\ acc.p < MaxNodeSteps
    /\ acc' = [p |-> acc.p + 1,
               T_C |-> Append(acc.T_C,
                          calc_T_C(acc.T_C[acc.p + 1], inp.T_int, inp.T_int, inp.T_out,
                                   inp.T_out, inp.I_sol, inp.I_sol, inp.R1, inp.R2, inp.R3,
                                   inp.C, inp.alpha, inp.tau))]
    /\ UNCHANGED <<pc, inp, out, prev>>

NextForced == forced_step

SpecForced == InitForced /\ [][NextForced]_vars

(***************************************************************************)
(* Calls with arguments the specification calls invalid: a required column *)
(* missing, a plane without a property it needs, a non-positive area, U,   *)
(* resistance or capacitance, timestamps that do not increase, no rows.    *)
(***************************************************************************)
Required == {req_cols[k] : k \in 1..Len(req_cols)}

MisuseCols == {AllCols \ {c} : c \in Required} \cup {AllCols, AllCols \ {"T_ground_C"}}

\* two sunny rows: an hour apart, none at all, at one instant, backwards in time
MisuseWeather(cols) ==
    {WeatherTable(cols, 60, SubSeq(SteadyDay, 2, 3)), WeatherTable(cols, 60, <<>>),
     WeatherTable(cols, 0, SubSeq(SteadyDay, 2, 3)), WeatherTable(cols, -60, SubSeq(SteadyDay, 2, 3))}

MisuseRoster ==
    <<SteadyRoster[1], SteadyRoster[3], SteadyRoster[5], SteadyRoster[6],
      Plane("Wall-E", "opaque", RI(10), RI(90), RI(90), Q(1, 2), Q(3, 5), None, None, One, FALSE),
      Plane("Win-G", "window", RI(5), RI(90), RI(180), RI(2), None, None, Q(4, 5), One, TRUE),
      Plane("Wall-0", "opaque", Zero, RI(90), RI(180), Q(1, 2), Q(3, 5), Q(9, 10), None, One, FALSE),
      Plane("Wall-U", "opaque", RI(10), RI(90), RI(180), Q(-1, 2), Q(3, 5), Q(9, 10), None, One, FALSE),
      Plane("Wall-N", "opaque", RI(10), RI(90), RI(180), Q(1, 2), Q(-1, 2), Q(9, 10), None, One, FALSE)>>

MisuseSteadyInputs ==
    {[fn |-> "physics.run_hourly", weather |-> w, planes |-> pl,
      air |-> AirSide(RI(120), Q(1, 10), Q(4, 5), Q(1, 2)),
      T_heat |-> RI(20), T_cool |-> RI(24), gains |-> None,
      kitchen_kw |-> Zero, kitchen_on |-> None] :
        w \in UNION {MisuseWeather(cols) : cols \in MisuseCols},
        pl \in Sublists(MisuseRoster, MaxPlanes)}

MisuseCircuitRosters ==
    {<<CircuitRoster[1]>>, <<CircuitRoster[3]>>, <<CircuitRoster[1], CircuitRoster[3]>>,
     <<CircuitRoster[1],
       CircuitPlane("Wall-R", "opaque", RI(10), RI(90), RI(180), RI(-2), Q(3, 5), Q(9, 10), None, One)>>,
     <<CircuitRoster[1],
       CircuitPlane("Roof-A", "opaque", RI(-20), RI(0), RI(0), RI(2), Q(3, 5), Q(9, 10), None, One)>>}

MisuseCircuitInputs ==
    {[fn |-> "src.physics.run_hourly", weather |-> w, planes |-> pl,
      air |-> CircuitAir(RI(120), Q(1, 2)), T_set |-> Scalar(RI(20)),
      vent_ACH |-> Scalar(Q(1, 2)), gains |-> None] :
        w \in UNION {MisuseWeather(cols) : cols \in MisuseCols},
        pl \in MisuseCircuitRosters}

\* a sound envelope, a roof without heat capacity, a roof of negative area
MisuseEnvelopes ==
    {Envelope(RCNode(One, Q(1, 2), Q(1, 2), RI(5400), Q(3, 5), One),
              RCNode(One, Q(3, 4), Q(1, 4), RI(5400), Q(4, 5), RI(4)), RCWindows),
     Envelope(RCNode(One, Q(1, 2), Q(1, 2), RI(5400), Q(3, 5), One),
              RCNode(One, Q(3, 4), Q(1, 4), Zero, Q(4, 5), RI(4)), RCWindows),
     Envelope(RCNode(One, Q(1, 2), Q(1, 2), RI(5400), Q(3, 5), One),
              RCNode(One, Q(3, 4), Q(1, 4), RI(5400), Q(4, 5), RI(-30)), RCWindows)}

MisuseRCInputs ==
    {[fn |-> "src.rc_model.run_rc_hourly",
      weather |-> WeatherTable(AllCols, 60, SubSeq(RCDay, 2, 3)), envelope |-> env,
      air |-> CircuitAir(RI(120), Q(1, 2)), T_set |-> RI(21),
      vent_ACH |-> Q(1, 2), gains |-> <<Zero, Zero, Zero>>, dt_minutes |-> dt] :
        env \in MisuseEnvelopes, dt \in {30, 60}}

run_hourly_misuse ==
    /\ pc = "idle"
    /\ \E i \in MisuseSteadyInputs : run_hourly_enter(i)
    /\ UNCHANGED prev

src_run_hourly_misuse ==
    /\ pc = "idle"
    /\ \E i \in MisuseCircuitInputs : src_run_hourly_enter(i)
    /\ UNCHANGED prev

run_rc_hourly_misuse ==
    /\ pc = "idle"
    /\ \E i \in MisuseRCInputs : run_rc_hourly_enter(i)
    /\ UNCHANGED prev

NextMisuse ==
    \/ run_hourly_misuse \/ run_hourly_plane \/ run_hourly_return
    \/ src_run_hourly_misuse \/ src_run_hourly_plane \/ src_run_hourly_return
    \/ run_rc_hourly_misuse \/ run_rc_hourly_step \/ run_rc_hourly_return

SpecMisuse == Init /\ [][NextMisuse]_vars

(***************************************************************************)
(* Properties                                                              *)
(***************************************************************************)
Steady == "physics.run_hourly"

Circuit == "src.physics.run_hourly"

RC == "src.rc_model.run_rc_hourly"

\* C1: every row of every returned result table has Q_heat_W >= 0, and every row
\* of the table of run_hourly (src/physics.py) has Q_cool_W >= 0.
C1_DemandsNonNegative ==
    out.status = "ok" =>
        \A k \in 1..Len(out.rows) :
            /\ RLeq(Zero, out.rows[k].Q_heat_W)
            /\ inp.fn = Steady => RLeq(Zero, out.rows[k].Q_cool_W)

\* C1 witness: a returned row whose heat balance is a net gain, clamped to no heating
C1_Witness ==
    /\ out.status = "ok" /\ inp.fn = Steady
    /\ \E k \in 1..Len(out.rows) :
          /\ RLt(Zero, RAdd(out.rows[k].Q_trans_h_W, out.rows[k].Q_air_h_W))
          /\ out.rows[k].Q_heat_W = Zero
          /\ RLt(Zero, out.rows[k].Q_cool_W)

\* what the heating demand of src/physics.py may depend on: everything but the
\* irradiance, the absorptances, the glazing and the gains
HeatingView(i) ==
    [Dark(EveryPlane(i, LAMBDA p : [p EXCEPT !.alpha = None, !.g = None, !.F_sh = None]))
        EXCEPT !.gains = None, !.kitchen_kw = Zero, !.kitchen_on = None]

\* C2: two runs of run_hourly (src/physics.py) that differ only in irradiance, alpha,
\* g / F_sh, internal gains or kitchen gains return the same Q_heat_W in every row,
\* and Q_heat_W = max(0, -(Q_trans_h_W + Q_air_h_W)).
C2_HeatingExcludesGains ==
    (/\ pc = "returned" /\ inp.fn = Steady /\ prev.status = "called"
     /\ HeatingView(prev.inp) = HeatingView(inp))
    => /\ Col(out, "Q_heat_W") = Col(prev.out, "Q_heat_W")
       /\ \A k \in 1..Len(out.rows) :
             out.rows[k].Q_heat_W =
                RMax(Zero, RNeg(RAdd(out.rows[k].Q_trans_h_W, out.rows[k].Q_air_h_W)))

\* C2 witness: two such runs with heating on, whose cooling demands differ
C2_Witness ==
    /\ pc = "returned" /\ inp.fn = Steady /\ prev.status = "called"
    /\ HeatingView(prev.inp) = HeatingView(inp)
    /\ prev.inp # inp
    /\ \E k \in 1..Len(out.rows) : RLt(Zero, out.rows[k].Q_heat_W)
    /\ Col(out, "Q_cool_W") # Col(prev.out, "Q_cool_W")

\* what C3 says the heating demand of the other two engines may depend on:
\* everything but the window g and the internal gains
GainsBlind(i) ==
    IF i.fn = RC
    THEN [i EXCEPT !.envelope.windows.g = None, !.gains = None]
    ELSE [EveryPlane(i, LAMBDA p : [p EXCEPT !.g = None]) EXCEPT !.gains = None]

\* C3: two runs of run_rc_hourly, or of run_hourly (src/src/physics.py), that differ
\* only in the window g or in the internal gains return the same Q_heat_W in every row.
C3_HeatingExcludesGains ==
    (/\ pc = "returned" /\ inp.fn \in {Circuit, RC} /\ prev.status = "called"
     /\ GainsBlind(prev.inp) = GainsBlind(inp))
    => Col(out, "Q_heat_W") = Col(prev.out, "Q_heat_W")

\* 0-based sum over the planes of a list
RECURSIVE SolarOfWindows(_, _, _)
SolarOfWindows(planes, w, k) ==
    IF planes = <<>> THEN Zero
    ELSE RAdd(IF is_window(Head(planes))
              THEN RMul(RMul(RMul(Head(planes).g, Head(planes).area_m2),
                             PlaneIrr(w, Head(planes))[k]),
                        IF Head(planes).F_sh = None THEN One ELSE Head(planes).F_sh)
              ELSE Zero,
              SolarOfWindows(Tail(planes), w, k))

\* C4: in every row of run_hourly (src/physics.py)
\* Q_cool_W = max(0, Q_trans_c_W + Q_air_c_W + Q_solar_W + Q_int_W + Q_kitchen_W),
\* Q_int_W is the gains total in kW times 1000 and Q_solar_W is the sum over the
\* windows of g * area * I_plane * F_sh.
C4_CoolingIncludesGains ==
    (out.status = "ok" /\ inp.fn = Steady) =>
        \A k \in 1..Len(out.rows) :
            LET r == out.rows[k]
            IN  /\ r.Q_cool_W =
                      RMax(Zero, RAdd(r.Q_trans_c_W,
                                 RAdd(r.Q_air_c_W,
                                 RAdd(r.Q_solar_W, RAdd(r.Q_int_W, r.Q_kitchen_W)))))
                /\ r.Q_int_W = IF inp.gains = None THEN Zero
                               ELSE RMul(RI(1000), RAdd(inp.gains[1],
                                                   RAdd(inp.gains[2], inp.gains[3])))
                /\ r.Q_solar_W = SolarOfWindows(inp.planes, inp.weather, k)

\* C4 witness: a returned row with solar, internal and kitchen gains and cooling on
C4_Witness ==
    /\ out.status = "ok" /\ inp.fn = Steady
    /\ \E k \in 1..Len(out.rows) :
          /\ RLt(Zero, out.rows[k].Q_solar_W)
          /\ RLt(Zero, out.rows[k].Q_int_W)
          /\ RLt(Zero, out.rows[k].Q_kitchen_W)
          /\ RLt(Zero, out.rows[k].Q_cool_W)
          /\ Len(inp.planes) = MaxPlanes

\* the plane loop of src/physics.py has just handled plane number acc.p
SteadyPlaneDone ==
    /\ pc = "planes" /\ pc' = "planes" /\ inp.fn = Steady
    /\ acc' # acc

Storage(C, tau) == RDiv(RMul(RI(2), C), tau)

\* 1/R1 + 1/(R2+R3), the conductance from the mass to its two boundaries
Conductance(R1, R2, R3) == RAdd(RDiv(One, R1), RDiv(One, RAdd(R2, R3)))

\* |T_C - T*|
Dist(T_C, T_star) == RAbs(RSub(T_C, T_star))

\* |2C/tau - k| / (2C/tau + k) with k the conductance: below 1 for positive parameters
Contraction(i) ==
    RDiv(RAbs(RSub(Storage(i.C, i.tau), Conductance(i.R1, i.R2, i.R3))),
         RAdd(Storage(i.C, i.tau), Conductance(i.R1, i.R2, i.R3)))

Tolerance == 3

\* the distance to T* shrinks at every step taken so far
NeverGrows ==
    {p \in 1..(Len(acc.T_C) - 1) :
        ~(/\ RLeq(Dist(acc.T_C[p + 1], inp.T_star), Dist(acc.T_C[p], inp.T_star))
          /\ RLt(Contraction(inp), One)
          /\ RLeq(Dist(acc.T_C[p + 1], inp.T_star), RMul(Contraction(inp), Dist(acc.T_C[p], inp.T_star))))} = {}

\* the latest T_C is within the tolerance of T*
WithinTolerance == RLt(Dist(acc.T_C[Len(acc.T_C)], inp.T_star), RI(Tolerance))

\* C6: for a single node with zero irradiance and T_int = T_out = T* at every step,
\* |T_C - T*| never grows from a step to the next (it shrinks by the factor
\* |2C/tau - k| / (2C/tau + k) < 1 at least), and T_C converges to T*: the distance
\* eventually stays below the tolerance.
C6_EquilibriumStable == []NeverGrows /\ <>[]WithinTolerance

\* C6 witness: a node that started away from T* is within the tolerance, not yet at T*
C6_Witness ==
    /\ pc = "node" /\ acc.p = MaxNodeSteps
    /\ RLeq(RI(Tolerance), Dist(acc.T_C[1], inp.T_star))
    /\ RLt(Dist(acc.T_C[acc.p + 1], inp.T_star), RI(Tolerance))
    /\ RLt(Zero, Dist(acc.T_C[acc.p + 1], inp.T_star))

\* T_C[p] and T_C[p+1] are on opposite sides of T*
Overshoot(p) ==
    \/ RLt(acc.T_C[p], inp.T_star) /\ RLt(inp.T_star, acc.T_C[p + 1])
    \/ RLt(inp.T_star, acc.T_C[p]) /\ RLt(acc.T_C[p + 1], inp.T_star)

\* C7 as stated: for every positive R1, R2, R3, C and tau the sign of T_C - T* never
\* flips from a step to the next.
C7_NoOvershoot ==
    pc = "node" => \A p \in 1..(Len(acc.T_C) - 1) : ~Overshoot(p)

\* C7: the sign of T_C - T* never flips from a step to the next provided
\* 2C/tau >= 1/R1 + 1/(R2+R3).
C7_NoOvershootSlowStep ==
    (pc = "node" /\ RLeq(Conductance(inp.R1, inp.R2, inp.R3), Storage(inp.C, inp.tau)))
    => \A p \in 1..(Len(acc.T_C) - 1) : ~Overshoot(p)

\* C7 witness: such a node, some steps on, still on the side of T* where it started
C7_Witness ==
    /\ pc = "node" /\ acc.p >= 2
    /\ RLt(Conductance(inp.R1, inp.R2, inp.R3), Storage(inp.C, inp.tau))
    /\ RLt(inp.T_star, acc.T_C[acc.p + 1]) /\ RLt(inp.T_star, inp.T_C0)

\* number of steps between the first and the last timestamp of the weather passed in
StepsOf(i) ==
    ((i.weather.rows[Len(i.weather.rows)].timestamp[1] - i.weather.rows[1].timestamp[1])
        \div i.dt_minutes) + 1

\* C9: the table run_rc_hourly returns has one row for each step of the series it
\* integrates, none dropped: the first row is step 0, at the first timestamp, with
\* T_C = 10.0 at the roof and the four walls, and the rows follow every dt_minutes.
C9_FullSeriesExposed ==
    (out.status = "ok" /\ inp.fn = RC) =>
        /\ Len(out.rows) = StepsOf(inp)
        /\ Len(out.rows) = Len(acc.weather_interp)
        /\ acc.p = Len(out.rows)
        /\ \A k \in 1..Len(out.rows) :
              out.rows[k].timestamp =
                 RI(inp.weather.rows[1].timestamp[1] + (k - 1) * inp.dt_minutes)
        /\ \A c \in {"T_C_roof", "T_C_N", "T_C_S", "T_C_E", "T_C_W"} :
              out.rows[1][c] = RI(10)

\* C9 witness: a returned table of several steps whose masses have left 10.0
C9_Witness ==
    /\ out.status = "ok" /\ inp.fn = RC
    /\ Len(out.rows) > MaxRows
    /\ out.rows[1].T_out_C # RI(10)
    /\ out.rows[Len(out.rows)].T_C_roof # RI(10)

\* C10 as stated: the table of run_rc_hourly has one row per weather row passed in,
\* with the timestamps and the outdoor temperatures passed in.
C10_RowsAsPassed ==
    (out.status = "ok" /\ inp.fn = RC) =>
        /\ Len(out.rows) = Len(inp.weather.rows)
        /\ \A k \in 1..Len(out.rows) :
              /\ out.rows[k].timestamp = inp.weather.rows[k].timestamp
              /\ out.rows[k].T_out_C = inp.weather.rows[k].T_out_C

\* the weather rows on either side of time ts
Before(rows, ts) == CHOOSE j \in 1..Len(rows) :
                        /\ rows[j].timestamp[1] <= ts
                        /\ \A m \in 1..Len(rows) : rows[m].timestamp[1] <= ts => m <= j

After(rows, ts) == CHOOSE j \in 1..Len(rows) :
                        /\ rows[j].timestamp[1] >= ts
                        /\ \A m \in 1..Len(rows) : rows[m].timestamp[1] >= ts => m >= j

\* the timestamps passed in lie on the grid of dt_minutes (minutes from midnight)
OnGrid(i) ==
    \A k \in 1..Len(i.weather.rows) : i.weather.rows[k].timestamp[1] % i.dt_minutes = 0

\* C10: run_rc_hourly resamples the weather itself: for weather whose timestamps are
\* whole multiples of dt_minutes, the table has one row every dt_minutes from the
\* first timestamp passed in to the last, a row at a timestamp that was passed in
\* carries that row's outdoor temperature and a row between two of them their linear
\* interpolation; the rows are the rows passed in only when the weather already has
\* the cadence dt_minutes.
C10_ResampledInside ==
    (out.status = "ok" /\ inp.fn = RC /\ OnGrid(inp)) =>
        LET rows == inp.weather.rows IN
        /\ Len(out.rows) = StepsOf(inp)
        /\ \A k \in 1..Len(out.rows) :
              LET ts == rows[1].timestamp[1] + (k - 1) * inp.dt_minutes
                  b == rows[Before(rows, ts)]
                  a == rows[After(rows, ts)]
              IN  /\ out.rows[k].timestamp = RI(ts)
                  /\ RMul(out.rows[k].T_out_C, RSub(a.timestamp, b.timestamp)) =
                        RAdd(RMul(b.T_out_C, RSub(a.timestamp, RI(ts))),
                             RMul(a.T_out_C, RSub(RI(ts), b.timestamp)))
                  /\ a = b => out.rows[k].T_out_C = a.T_out_C
        /\ (Len(out.rows) = Len(rows) /\ Len(rows) > 1)
           <=> (Len(rows) > 1 /\ \A k \in 1..(Len(rows) - 1) :
                  rows[k + 1].timestamp[1] - rows[k].timestamp[1] = inp.dt_minutes)

\* C10 witness: a returned table with more rows than were passed in, one of them
\* with an outdoor temperature no row passed in has
C10_Witness ==
    /\ out.status = "ok" /\ inp.fn = RC
    /\ OnGrid(inp)
    /\ Len(out.rows) > Len(inp.weather.rows)
    /\ \E k \in 1..Len(out.rows) :
          \A j \in 1..Len(inp.weather.rows) :
              out.rows[k].T_out_C # inp.weather.rows[j].T_out_C

\* greatest Q_heat_W of a table
Peak(o) ==
    Col(o, "Q_heat_W")[CHOOSE k \in 1..Len(o.rows) :
                          \A j \in 1..Len(o.rows) :
                              RLeq(o.rows[j].Q_heat_W, o.rows[k].Q_heat_W)]

\* the two calls differ in nothing but capacitance, and no node of the second
\* has less than the same node of the first
OnlyHeavier(i, j) ==
    /\ [i EXCEPT !.envelope = [s \in {"roof"} |-> Zero]] =
       [j EXCEPT !.envelope = [s \in {"roof"} |-> Zero]]
    /\ i.envelope.windows = j.envelope.windows
    /\ \A s \in Surfaces :
          /\ [Node(i.envelope, s) EXCEPT !.C = Zero] = [Node(j.envelope, s) EXCEPT !.C = Zero]
          /\ RLeq(Node(i.envelope, s).C, Node(j.envelope, s).C)

ConstantWeather(i) ==
    \A k \in 1..Len(i.weather.rows) :
        [i.weather.rows[k] EXCEPT !.timestamp = Zero] =
        [i.weather.rows[1] EXCEPT !.timestamp = Zero]

\* 2C/tau >= 1/R1 + 1/(R2+R3) at every node
SlowStep(i) ==
    \A s \in Surfaces :
        RLeq(Conductance(Node(i.envelope, s).R1, Node(i.envelope, s).R2, Node(i.envelope, s).R3),
             Storage(Node(i.envelope, s).C, RI(i.dt_minutes * 60)))

\* the temperature node s settles at under the weather of the first row
Equilibrium(i, s) ==
    LET nd == Node(i.envelope, s)
        w == i.weather.rows[1]
        I == irradiance_on_plane(w.I_dir_Wm2, w.I_dif_Wm2,
                 cos_inc(w.theta_s_deg, w.phi_s_deg, SurfaceTilt(s), SurfaceAzimuth(s)),
                 SurfaceTilt(s))
    IN  RDiv(RAdd(RAdd(RDiv(i.T_set, nd.R1), RDiv(w.T_out_C, RAdd(nd.R2, nd.R3))),
                  RMul(RDiv(RMul(nd.alpha, nd.R3), RAdd(nd.R2, nd.R3)), I)),
             Conductance(nd.R1, nd.R2, nd.R3))

\* the second call is the first with more capacitance, on weather that does not
\* change, with steps short enough that no node overshoots and every node
\* settling at or below the 10.0 it starts from
DampedPair ==
    /\ pc = "returned" /\ inp.fn = RC /\ prev.status = "called"
    /\ OnlyHeavier(prev.inp, inp)
    /\ ConstantWeather(inp) /\ OnGrid(inp)
    /\ SlowStep(prev.inp) /\ SlowStep(inp)
    /\ \A s \in Surfaces : RLeq(Equilibrium(inp, s), RI(10))

MissingCols(i) == Required \ i.weather.cols

\* C11: a call of the steady-state engine (either run_hourly) whose weather table
\* lacks a required column raises an error that names a missing column, before
\* any load is computed (no accumulator exists) and without returning a table.
C11_MissingColumnRejected ==
    (pc # "idle" /\ inp.fn \in {Steady, Circuit} /\ MissingCols(inp) # {}) =>
        /\ pc = "raised"
        /\ acc = None
        /\ out.detail[1] \in MissingCols(inp)

\* the property plane p lacks for its kind and boundary condition, or None:
\* ground temperature for a ground-coupled plane, alpha/epsilon for an exposed
\* opaque plane, g for a window
Lacks(w, p) ==
    IF p.ground_contact /\ "T_ground_C" \notin w.cols THEN <<"T_ground_C">>
    ELSE IF is_opaque(p) /\ ~p.ground_contact /\ (p.alpha = None \/ p.epsilon = None)
    THEN <<"alpha/epsilon">>
    ELSE IF is_window(p) /\ p.g = None THEN <<"g">>
    ELSE None

Lacking(i) == {k \in 1..Len(i.planes) : Lacks(i.weather, i.planes[k]) # None}

\* C12: run_hourly (src/physics.py), given every required column, returns no
\* result when some plane lacks a property required for its kind or boundary
\* condition, and every error it raises names such a plane and the property it
\* lacks; so a ground-coupled opaque plane without alpha and epsilon is accepted.
C12_PlaneMissingPropertyRejected ==
    (pc # "idle" /\ inp.fn = Steady /\ MissingCols(inp) = {}) =>
        /\ pc = "returned" => Lacking(inp) = {}
        /\ pc = "raised" =>
              \E k \in Lacking(inp) :
                  out.detail = <<inp.planes[k].name, Lacks(inp.weather, inp.planes[k])[1]>>

NonPositive(x) == RLeq(x, Zero)

\* call i carries a plane or node with non-positive area, U, resistance or
\* capacitance, or a non-positive timestep
InvalidConfiguration(i) ==
    CASE i.fn = Steady ->
           \E k \in 1..Len(i.planes) :
               NonPositive(i.planes[k].area_m2) \/ NonPositive(i.planes[k].U)
      [] i.fn = Circuit ->
           \E k \in 1..Len(i.planes) :
               NonPositive(i.planes[k].area) \/ NonPositive(i.planes[k].r)
      [] i.fn = RC ->
           \/ i.dt_minutes <= 0
           \/ \E s \in Surfaces :
                \E f \in {"area", "R1", "R2", "R3", "C"} : NonPositive(Node(i.envelope, s)[f])

\* C13: no engine returns a result table from a call whose configuration is
\* invalid (non-positive area, U, resistance, capacitance or timestep).
C13_InvalidConfigurationRejected ==
    (pc # "idle" /\ InvalidConfiguration(inp)) => pc # "returned"

\* the timestamp series of weather table w is empty or not strictly increasing
BadTimestamps(w) ==
    \/ Len(w.rows) = 0
    \/ \E k \in 1..(Len(w.rows) - 1) : ~RLt(w.rows[k].timestamp, w.rows[k + 1].timestamp)

\* C14: no engine entry point returns a result table from a weather table whose
\* timestamp series is empty or not strictly increasing.
C14_BadTimestampsRejected ==
    (pc # "idle" /\ MissingCols(inp) = {} /\ BadTimestamps(inp.weather)) => pc # "returned"

\* RHO_AIR * CP_AIR * (ACH * volume / 3600) * (T_int - T_out)
AirExchange(ACH, volume, T_int, T_out) ==
    RMul(RMul(RMul(RHO_AIR, CP_AIR), RDiv(RMul(ACH, volume), RI(3600))), RSub(T_int, T_out))

\* C15: in every table run_hourly of src/src/physics.py returns, a row whose
\* ventilation rate is 0 (or vent_ACH was None) has Q_vent_W = 0 and every other
\* row has the full ventilation exchange; with infiltration 0 every row has
\* Q_inf_W = 0; in every table run_rc_hourly returns, ventilation 0 gives
\* Q_vent_W = 0 in every row and a positive rate the full exchange; and no call
\* with a window in its plane list ends in a division error.
C15_ZeroAirflowZeroExchange ==
    /\ (pc = "returned" /\ inp.fn = Circuit) =>
          \A k \in 1..Len(out.rows) :
              LET r == out.rows[k]
              IN  /\ r.Q_vent_W = IF r.vent_ACH = Zero THEN Zero
                                  ELSE AirExchange(r.vent_ACH, inp.air.volume, r.T_int_C, r.T_out_C)
                  /\ inp.vent_ACH = Scalar(None) => r.Q_vent_W = Zero
                  /\ inp.air.infiltration = Zero => r.Q_inf_W = Zero
    /\ (pc = "returned" /\ inp.fn = RC) =>
          \A k \in 1..Len(out.rows) :
              LET r == out.rows[k]
              IN  r.Q_vent_W = IF inp.vent_ACH = Zero THEN Zero
                               ELSE AirExchange(inp.vent_ACH, inp.air.volume, r.T_int_C, r.T_out_C)
    /\ (pc = "raised" /\ inp.fn = Circuit /\ WindowConductance(inp.planes) # Zero) =>
          out.error # "ZeroDivisionError"

\* a returned table of src/src/physics.py with a row without ventilation next to
\* a row that exchanges heat by ventilation, in a zone without infiltration
C15_Witness ==
    /\ pc = "returned" /\ inp.fn = Circuit
    /\ inp.air.infiltration = Zero
    /\ \E k \in 1..Len(out.rows) : out.rows[k].vent_ACH = Zero /\ out.rows[k].T_int_C # out.rows[k].T_out_C
    /\ \E k \in 1..Len(out.rows) : out.rows[k].Q_vent_W # Zero

\* the outdoor temperature of call i is the heating setpoint in every row and
\* the call has no internal or kitchen gains
AtHeatingSetpoint(i) ==
    CASE i.fn = Steady ->
           /\ \A k \in 1..Len(i.weather.rows) : i.weather.rows[k].T_out_C = i.T_heat
           /\ i.gains = None /\ i.kitchen_kw = Zero
      [] i.fn = Circuit ->
           /\ \A k \in 1..Len(i.weather.rows) :
                  i.weather.rows[k].T_out_C = Broadcast(i.T_set, Len(i.weather.rows))[k]
           /\ i.gains = None

\* C16 as claimed: at the heating setpoint outdoors and without gains the
\* steady-state engine returns Q_heat_W = 0 in every row, whatever the planes
\* (ground-coupled ones at any ground temperature) and the air side.
C16_EquilibriumNoDemand ==
    (pc = "returned" /\ inp.fn \in {Steady, Circuit} /\ AtHeatingSetpoint(inp)) =>
        \A k \in 1..Len(out.rows) : out.rows[k].Q_heat_W = Zero

\* no ground-coupled plane of call i sees ground colder than the heating setpoint
GroundNotColder(i) ==
    i.fn = Steady =>
        \A j \in 1..Len(i.planes) :
            i.planes[j].ground_contact =>
                \A k \in 1..Len(i.weather.rows) : RLeq(i.T_heat, i.weather.rows[k].T_ground_C)

\* C16 amended: at the heating setpoint outdoors and without gains the
\* steady-state engine returns Q_heat_W = 0 in every row, for every air side and
\* every set of planes whose ground-coupled planes see ground at or above the
\* heating setpoint in every row.
C16_EquilibriumNoDemandWarmGround ==
    (pc = "returned" /\ inp.fn \in {Steady, Circuit} /\ AtHeatingSetpoint(inp)
        /\ GroundNotColder(inp)) =>
        \A k \in 1..Len(out.rows) : out.rows[k].Q_heat_W = Zero

\* a ventilated zone with a floor on warm ground, returned at equilibrium
C16_Witness ==
    /\ pc = "returned" /\ inp.fn = Steady
    /\ AtHeatingSetpoint(inp) /\ GroundNotColder(inp)
    /\ \E j \in 1..Len(inp.planes) : inp.planes[j].ground_contact
    /\ inp.air.Vdot_vent_m3s # Zero

C18_InputsUntouched == [][pc # "idle" => inp' = inp]_vars

\* run_hourly (src/physics.py) raised on its second plane, after the loads of a
\* sunlit first plane were added up
C18_Witness ==
    /\ pc = "raised" /\ inp.fn = Steady /\ out.what = "needs"
    /\ acc.p = 2
    /\ \E k \in 1..Len(acc.Q_trans_c) : acc.Q_trans_c[k] # Zero

\* the right-hand side of the recurrence for node nd: x is T_C[p-1], Ti, To and
\* I are the sums T_int[p]+T_int[p-1], T_out[p]+T_out[p-1] and I[p]+I[p-1]
Recurrence(x, Ti, To, I, nd, tau) ==
    LET G1 == RDiv(One, nd.R1)
        G23 == RDiv(One, RAdd(nd.R2, nd.R3))
        S == RDiv(RMul(RI(2), nd.C), tau)
    IN  RDiv(RAdd(RAdd(RAdd(RMul(Ti, G1), RMul(To, G23)),
                       RMul(RMul(RMul(nd.alpha, nd.R3), G23), I)),
                  RMul(RSub(RSub(S, G1), G23), x)),
             RAdd(RAdd(S, G1), G23))

\* irradiance on the plane of surface s at step p of the resampled weather
OwnIrradiance(s, p) ==
    irradiance_on_plane(acc.weather_interp[p].I_dir_Wm2, acc.weather_interp[p].I_dif_Wm2,
        cos_inc(acc.weather_interp[p].theta_s_deg, acc.weather_interp[p].phi_s_deg,
                SurfaceTilt(s), SurfaceAzimuth(s)),
        SurfaceTilt(s))

\* C19: while run_rc_hourly runs and when it has returned, every T_C entry the
\* time loop has written, for each of the five nodes, is the recurrence applied
\* to the node's own R1, R2, R3, C, alpha and plane irradiance, tau =
\* dt_minutes * 60 and the values at this step and the one before; the first
\* entry and the entries not yet written hold T_init.
C19_Recurrence ==
    (pc \in {"rc_steps", "returned"} /\ inp.fn = RC) =>
        \A s \in Surfaces :
            \A p \in 1..Len(acc.T_C[s]) :
                acc.T_C[s][p] =
                    IF p = 1 \/ p > acc.p THEN T_init
                    ELSE Recurrence(acc.T_C[s][p - 1],
                                    RAdd(inp.T_set, inp.T_set),
                                    RAdd(acc.weather_interp[p].T_out_C,
                                         acc.weather_interp[p - 1].T_out_C),
                                    RAdd(OwnIrradiance(s, p), OwnIrradiance(s, p - 1)),
                                    Node(inp.envelope, s), RI(inp.dt_minutes * 60))

\* a returned run whose time loop met sun that the south wall sees and the
\* north wall does not
C19_Witness ==
    /\ pc = "returned" /\ inp.fn = RC
    /\ \E p \in 2..Len(acc.T_C["S"]) :
           /\ OwnIrradiance("S", p) # OwnIrradiance("N", p)
           /\ acc.T_C["S"][p] # acc.T_C["N"][p]

\* the 2-resistor update: x is T_C[p-1], the node sits between T_int behind R1
\* and the sol-air temperature T_sol behind R2
TwoResistor(x, T_int_curr, T_int_prev, T_sol_curr, T_sol_prev, R1, R2, C, tau) ==
    LET S == RDiv(RMul(RI(2), C), tau)
    IN  RDiv(RAdd(RAdd(RDiv(RAdd(T_int_curr, T_int_prev), R1),
                       RDiv(RAdd(T_sol_curr, T_sol_prev), R2)),
                  RMul(RSub(RSub(S, RDiv(One, R1)), RDiv(One, R2)), x)),
             RAdd(RAdd(S, RDiv(One, R1)), RDiv(One, R2)))

\* T_out + alpha * R3 * I
FilmSolAir(T_out, I, nd) == RAdd(T_out, RMul(RMul(nd.alpha, nd.R3), I))

\* C20: on the arguments of every step of every node in a run of run_rc_hourly,
\* calc_T_C returns what the 2-resistor update returns with R2 + R3 for R2 and
\* the sol-air temperature T_out + alpha * R3 * I.
C20_ThreeResistorIsTwoResistor ==
    (pc \in {"rc_steps", "returned"} /\ inp.fn = RC) =>
        \A s \in Surfaces :
            \A p \in 2..Len(acc.T_C[s]) :
                LET nd == Node(inp.envelope, s)
                    w == acc.weather_interp
                    I == acc.I_sol[s]
                    tau == RI(inp.dt_minutes * 60)
                IN  calc_T_C(acc.T_C[s][p - 1], inp.T_set, inp.T_set,
                             w[p].T_out_C, w[p - 1].T_out_C, I[p], I[p - 1],
                             nd.R1, nd.R2, nd.R3, nd.C, nd.alpha, tau)
                    = TwoResistor(acc.T_C[s][p - 1], inp.T_set, inp.T_set,
                                  FilmSolAir(w[p].T_out_C, I[p], nd),
                                  FilmSolAir(w[p - 1].T_out_C, I[p - 1], nd),
                                  nd.R1, RAdd(nd.R2, nd.R3), nd.C, tau)

\* the time loop has stepped the roof node under the sun
C20_Witness ==
    /\ pc = "rc_steps" /\ inp.fn = RC
    /\ acc.p >= 2
    /\ acc.I_sol["roof"][acc.p] # Zero
    /\ acc.T_C["roof"][acc.p] # T_init

\* the window of the envelope of call i as a Plane of src/src/physics.py
WindowPlane(i, tilt, azimuth, F_sh) ==
    CircuitPlane("Window", "window", i.envelope.windows.area, tilt, azimuth,
                 i.envelope.windows.R, None, None, i.envelope.windows.g, F_sh)

\* what run_hourly of src/src/physics.py computes at row k of weather rows for
\* setpoint T_set and the single window win: <<Q_win, Q_inf, Q_vent, Q_solar, Q_int>>
CircuitTerms(rows, T_set, k, win, air, vent, gains) ==
    LET n == Len(rows)
        w == [rows |-> rows, cols |-> AllCols]
        T_in == [j \in 1..n |-> T_set]
        dT == RSub(T_set, rows[k].T_out_C)
        a == CircuitAccumulate([p |-> 1, Q_roof |-> Zeros(n), Q_walls |-> Zeros(n),
                                Q_solar |-> Zeros(n), R_win |-> Zero], w, win, T_in)
    IN  <<RDiv(dT, RDiv(One, WindowConductance(<<win>>))),
          OverR(dT, InfiltrationR(air)), OverR(dT, VentilationR(air, vent)),
          a.Q_solar[k], CircuitInternalGain(gains)>>

\* the rows of the returned table of run_rc_hourly agree with src/src/physics.py
\* for the window win: opaque losses are -q * area with q = (T_C - T_int) / R1,
\* the other terms are those of CircuitTerms, the demand is the same clamp
SameAggregation(win) ==
    \A k \in 1..Len(out.rows) :
        LET r == out.rows[k]
            Loss(T_C, nd) == RMul(RNeg(RDiv(RSub(T_C, r.T_int_C), nd.R1)), nd.area)
            walls == inp.envelope.walls
        IN  /\ r.Q_roof_W = Loss(r.T_C_roof, inp.envelope.roof)
            /\ r.Q_walls_W = RAdd(RAdd(RAdd(Loss(r.T_C_N, walls["N"]), Loss(r.T_C_S, walls["S"])),
                                       Loss(r.T_C_E, walls["E"])), Loss(r.T_C_W, walls["W"]))
            /\ <<r.Q_win_W, r.Q_inf_W, r.Q_vent_W, r.Q_solar_W, r.Q_int_W>>
                  = CircuitTerms(acc.weather_interp, inp.T_set, k, win, inp.air,
                                 inp.vent_ACH, inp.gains)
            /\ r.Q_heat_W = HeatingDemand(r.Q_roof_W, r.Q_walls_W, r.Q_win_W, r.Q_inf_W,
                                          r.Q_vent_W, r.Q_solar_W, r.Q_int_W)

\* the ways to describe the envelope's window to src/src/physics.py: vertical,
\* facing south or east, unshaded or half shaded
WindowPlanes(i) ==
    {WindowPlane(i, RI(90), az, sh) : az \in {RI(180), RI(90)}, sh \in {One, Q(1, 2)}}

\* C21 as claimed: every table run_rc_hourly returns has opaque losses -q * area
\* and, for the same T_int, T_out, air side, gains and single window, the
\* window, infiltration, ventilation, solar and internal terms and the clamp of
\* run_hourly of src/src/physics.py, however that window is oriented or shaded.
C21_SameAggregation ==
    (pc = "returned" /\ inp.fn = RC) => \A win \in WindowPlanes(inp) : SameAggregation(win)

\* C21 amended: the same for a single vertical south-facing window with F_sh = 1.
C21_SameAggregationSouthUnshaded ==
    (pc = "returned" /\ inp.fn = RC) => SameAggregation(WindowPlane(inp, RI(90), RI(180), One))

\* a returned table with sun on the window, ventilation and internal gains
C21_Witness ==
    /\ pc = "returned" /\ inp.fn = RC
    /\ inp.vent_ACH # Zero /\ inp.gains # <<Zero, Zero, Zero>>
    /\ \E k \in 1..Len(out.rows) :
           /\ out.rows[k].Q_solar_W # Zero
           /\ out.rows[k].Q_roof_W # Zero
           /\ out.rows[k].Q_heat_W # Zero

\* the column of the result table that holds T_C of surface s
TCol(s) == IF s = "roof" THEN "T_C_roof"
           ELSE CASE s = "N" -> "T_C_N" [] s = "S" -> "T_C_S" [] s = "E" -> "T_C_E" [] s = "W" -> "T_C_W"

\* calls i and j differ, and only in the parameters of surface s
DifferOnlyIn(i, j, s) ==
    /\ i # j
    /\ j = IF s = "roof" THEN [i EXCEPT !.envelope.roof = j.envelope.roof]
           ELSE [i EXCEPT !.envelope.walls[s] = j.envelope.walls[s]]

\* C22: when two runs of run_rc_hourly differ only in the parameters of one
\* surface, the T_C series of every other surface is the same in both tables.
C22_NodesDecoupled ==
    (pc = "returned" /\ prev.status = "called" /\ inp.fn = RC) =>
        \A s \in Surfaces :
            DifferOnlyIn(prev.inp, inp, s) =>
                \A t \in Surfaces \ {s} : Col(out, TCol(t)) = Col(prev.out, TCol(t))

\* two returned runs that differ in the south wall only, and in its T_C series
C22_Witness ==
    /\ pc = "returned" /\ prev.status = "called" /\ inp.fn = RC
    /\ DifferOnlyIn(prev.inp, inp, "S")
    /\ Col(out, "T_C_S") # Col(prev.out, "T_C_S")

\* U * A * (T_indoor - T_boundary), a loss
Loss(U, A, T_indoor, T_boundary) == RMul(RMul(U, A), RSub(T_indoor, T_boundary))

\* T_out + alpha * I_plane / h_e
SolAir(T_out, alpha, I_plane) == RAdd(T_out, RDiv(RMul(alpha, I_plane), H_E))

CircuitPlaneDone ==
    /\ pc = "circuit_planes" /\ pc' = "circuit_planes" /\ inp.fn = Circuit
    /\ acc' # acc

\* the plane the step under way handles is opaque
OpaqueTurn == is_opaque(inp.planes[acc.p])

\* what the step adds to the losses of row k in run_hourly of src/physics.py
\* (Q_trans_h and Q_trans_c count heat entering the room, so a loss is taken off)
HeatingLossAdded(k) == RSub(acc.Q_trans_h[k], acc'.Q_trans_h[k])

CoolingLossAdded(k) == RSub(acc.Q_trans_c[k], acc'.Q_trans_c[k])

\* what the step adds to the losses of row k in run_hourly of src/src/physics.py
CircuitLossAdded(k) ==
    RSub(RAdd(acc'.Q_roof[k], acc'.Q_walls[k]), RAdd(acc.Q_roof[k], acc.Q_walls[k]))

\* in src/src/physics.py the term of an opaque plane is U*A*(T_in - T_sol_air)
\* with U = 1/r
CircuitTermSolAir ==
    (CircuitPlaneDone /\ OpaqueTurn) =>
        \A k \in 1..Len(inp.weather.rows) :
            LET pl == inp.planes[acc.p]
                row == inp.weather.rows[k]
            IN  CircuitLossAdded(k) =
                    Loss(RDiv(One, pl.r), pl.area, Broadcast(inp.T_set, Len(inp.weather.rows))[k],
                         SolAir(row.T_out_C, pl.alpha, CircuitIrr(inp.weather, pl)[k]))

\* the boundary temperature of the claim: ground or sol-air
Boundary(pl, row, I_plane) ==
    IF pl.ground_contact THEN row.T_ground_C ELSE SolAir(row.T_out_C, pl.alpha, I_plane)

SinglePlaneDark(i) ==
    /\ i.fn = Steady
    /\ Len(i.planes) = 1 /\ is_opaque(i.planes[1]) /\ ~i.planes[1].ground_contact
    /\ \A k \in 1..Len(i.weather.rows) :
           i.weather.rows[k].I_dir_Wm2 = Zero /\ i.weather.rows[k].I_dif_Wm2 = Zero
    /\ i.air.Vdot_vent_m3s = Zero /\ i.air.ACH_infiltration_h = Zero

\* C24: for a single exposed opaque plane, no irradiance and no air exchange,
\* run_hourly of src/physics.py returns Q_heat_W = max(0, U*A*(T_heat - T_out))
\* in every row, whatever the absorptance of the plane and the solar angles.
C24_SinglePlaneHeating ==
    (pc = "returned" /\ SinglePlaneDark(inp)) =>
        \A k \in 1..Len(out.rows) :
            out.rows[k].Q_heat_W =
                RMax(Zero, Loss(inp.planes[1].U, inp.planes[1].area_m2, inp.T_heat,
                                inp.weather.rows[k].T_out_C))

\* the same wall under two absorptances: both calls returned the same demand in
\* the cold
C24_Witness ==
    /\ pc = "returned" /\ SinglePlaneDark(inp)
    /\ prev.status = "called" /\ prev.inp.fn = Steady /\ SinglePlaneDark(prev.inp)
    /\ prev.inp.planes[1].alpha # inp.planes[1].alpha
    /\ \E k \in 1..Len(out.rows) :
           /\ RLt(Zero, out.rows[k].Q_heat_W)
           /\ prev.out.rows[k].Q_heat_W = out.rows[k].Q_heat_W

\* what is left of a returned plane irradiance once the diffuse part
\* I_dif * (1 + cos(tilt)) / 2 is taken off
BeamTerm ==
    RSub(out.value,
         RMul(inp.args.I_dif, RDiv(RAdd(One, CosDeg(inp.args.tilt)), RI(2))))

\* C25: the beam term of the irradiance returned by plane_irradiance and by
\* irradiance_on_plane is never negative, and it is exactly 0 whenever
\* cos_i <= 0 or I_dir <= 0, for every I_dir, I_dif, cos_i and tilt.
C25_BeamNeverNegative ==
    pc = "returned" =>
        /\ RLeq(Zero, BeamTerm)
        /\ (RLeq(inp.args.cos_i, Zero) \/ RLeq(inp.args.I_dir, Zero)) => BeamTerm = Zero

\* a negative beam reading with the sun before the plane, under a negative
\* diffuse reading: the beam term returned is 0
C25_Witness ==
    /\ pc = "returned"
    /\ RLt(inp.args.I_dir, Zero) /\ RLt(Zero, inp.args.cos_i) /\ RLt(inp.args.I_dif, Zero)
    /\ BeamTerm = Zero /\ RLt(out.value, Zero)

\* the plane the engine has handled last
Handled == inp.planes[acc.p - 1]

\* an exposed opaque plane has been handled by run_hourly of src/physics.py
SteadyExposedHandled ==
    /\ pc = "planes" /\ inp.fn = Steady /\ acc.p > 1
    /\ is_opaque(Handled) /\ ~Handled.ground_contact

\* an opaque plane has been handled by run_hourly of src/src/physics.py
CircuitOpaqueHandled ==
    /\ pc = "circuit_planes" /\ inp.fn = Circuit /\ acc.p > 1
    /\ is_opaque(Handled)

T_held == Held(inp.R1, inp.R2, inp.R3, inp.alpha, inp.T_int, inp.T_out, inp.I_sol)

\* the opaque term of src/src/physics.py for a plane of resistance R1+R2+R3 and
\* the same area under h_e = 1/R3
SteadyOpaqueTerm ==
    RDiv(RMul(inp.area,
              RSub(inp.T_int, sol_air(inp.T_out, inp.I_sol, inp.alpha, RDiv(One, inp.R3)))),
         RAdd(RAdd(inp.R1, inp.R2), inp.R3))

\* C27: under constant T_int, T_out and irradiance, a node at
\* T* = (T_int/R1 + (T_out + alpha*R3*I)/(R2+R3)) / (1/R1 + 1/(R2+R3)) is left
\* at T* by calc_T_C, and there the surface loss -q*area is the steady-state
\* opaque term area*(T_int - (T_out + alpha*R3*I))/(R1+R2+R3).
C27_SteadyStateAgrees ==
    pc = "forced" =>
        \A p \in 2..Len(acc.T_C) :
            acc.T_C[p - 1] = T_held =>
                /\ acc.T_C[p] = T_held
                /\ RMul(RNeg(calc_heat_flux(acc.T_C[p], inp.T_int, inp.R1)), inp.area)
                       = SteadyOpaqueTerm

\* a sunlit node that started where the forcing holds it has run to the end
C27_Witness ==
    /\ pc = "forced" /\ acc.p = MaxNodeSteps
    /\ inp.T_C0 = T_held /\ acc.T_C[Len(acc.T_C)] = T_held
    /\ inp.I_sol # Zero /\ inp.T_out # inp.T_int

\* Q = (T_in - T_sol_air) / R of plane j of the call in row k
OpaqueQ(j, k) ==
    Loss(RDiv(One, inp.planes[j].r), inp.planes[j].area,
         Broadcast(inp.T_set, Len(inp.weather.rows))[k],
         SolAir(inp.weather.rows[k].T_out_C, inp.planes[j].alpha,
                CircuitIrr(inp.weather, inp.planes[j])[k]))

\* the sum of Q in row k over the opaque planes among the first n that are
\* roofs (tilt 0) or, with roof = FALSE, that are not
CategorySum(n, k, roof) ==
    SumSeq([j \in 1..n |->
        IF is_opaque(inp.planes[j]) /\ ((inp.planes[j].tilt = Zero) <=> roof)
        THEN OpaqueQ(j, k) ELSE Zero])

\* C28: in run_hourly of src/src/physics.py, after any number of planes, Q_roof
\* holds the sum of Q over the opaque planes of tilt 0 handled so far and Q_walls
\* the sum over the other opaque planes handled so far; in the returned table
\* Q_roof_W + Q_walls_W is the sum of Q over all opaque planes, in every row.
C28_EveryOpaquePlaneOnce ==
    /\ (pc = "circuit_planes" /\ inp.fn = Circuit) =>
          \A k \in 1..Len(inp.weather.rows) :
              /\ acc.Q_roof[k] = CategorySum(acc.p - 1, k, TRUE)
              /\ acc.Q_walls[k] = CategorySum(acc.p - 1, k, FALSE)
    /\ (pc = "returned" /\ inp.fn = Circuit) =>
          \A k \in 1..Len(out.rows) :
              RAdd(out.rows[k].Q_roof_W, out.rows[k].Q_walls_W) =
                  RAdd(CategorySum(Len(inp.planes), k, TRUE),
                       CategorySum(Len(inp.planes), k, FALSE))

\* the table of a house with a roof, a wall and a floor slab: the walls total
\* holds more than the wall alone
C28_Witness ==
    /\ pc = "returned" /\ inp.fn = Circuit
    /\ Cardinality({j \in 1..Len(inp.planes) : is_opaque(inp.planes[j])}) = 3
    /\ \E j \in 1..Len(inp.planes) : is_opaque(inp.planes[j]) /\ inp.planes[j].tilt = RI(180)
    /\ \E k \in 1..Len(out.rows) :
           /\ out.rows[k].Q_roof_W # Zero
           /\ out.rows[k].Q_walls_W # out.rows[k].Q_roof_W
           /\ \A j \in 1..Len(inp.planes) :
                  is_opaque(inp.planes[j]) => out.rows[k].Q_walls_W # OpaqueQ(j, k)

\* run_hourly of src/physics.py has returned from a call with T_heat <= T_cool
\* and neither internal nor kitchen gains
ReturnedWithoutGains ==
    /\ pc = "returned" /\ inp.fn = Steady
    /\ RLeq(inp.T_heat, inp.T_cool)
    /\ inp.gains = None /\ inp.kitchen_kw = Zero

\* row k of the call has neither direct nor diffuse irradiance
DarkRow(k) ==
    inp.weather.rows[k].I_dir_Wm2 = Zero /\ inp.weather.rows[k].I_dif_Wm2 = Zero

BothDemands(k) == RLt(Zero, out.rows[k].Q_heat_W) /\ RLt(Zero, out.rows[k].Q_cool_W)

\* C29 as claimed: with T_heat <= T_cool, zero irradiance and zero gains no row
\* of the table of run_hourly of src/physics.py has Q_heat_W > 0 and
\* Q_cool_W > 0, whatever the planes, the ground temperature and the air side.
C29_NeverBothDemands ==
    ReturnedWithoutGains =>
        \A k \in 1..Len(out.rows) : DarkRow(k) => ~BothDemands(k)

\* C29 amended: the same for every call whose ground-coupled planes see ground
\* at or above T_heat in every row.
C29_NeverBothDemandsWarmGround ==
    (ReturnedWithoutGains /\ GroundNotColder(inp)) =>
        \A k \in 1..Len(out.rows) : DarkRow(k) => ~BothDemands(k)

\* a floor on ground warmer than T_cool under a dark sky: a cooling demand and
\* no heating demand
C29_Witness ==
    /\ ReturnedWithoutGains /\ GroundNotColder(inp)
    /\ \E j \in 1..Len(inp.planes) : inp.planes[j].ground_contact
    /\ \E k \in 1..Len(out.rows) :
           /\ DarkRow(k) /\ RLt(inp.T_cool, inp.weather.rows[k].T_ground_C)
           /\ RLt(Zero, out.rows[k].Q_cool_W) /\ out.rows[k].Q_heat_W = Zero

\* a call of run_hourly of src/src/physics.py with a full weather table and a
\* plane list without a window, whose opaque planes have their absorptance
WindowlessCall ==
    /\ pc # "idle" /\ inp.fn = Circuit
    /\ inp.weather.cols = AllCols
    /\ \A j \in 1..Len(inp.planes) : is_opaque(inp.planes[j]) /\ inp.planes[j].alpha # None

\* C30: run_hourly of src/src/physics.py raises no error on a plane list
\* without a window, and the table it returns has Q_win_W = 0 and Q_solar_W = 0
\* in every row.
C30_WindowlessReturns ==
    WindowlessCall =>
        /\ pc # "raised"
        /\ pc = "returned" =>
              \A k \in 1..Len(out.rows) :
                  out.rows[k].Q_win_W = Zero /\ out.rows[k].Q_solar_W = Zero

=============================================================================
